---- MODULE Spec2Model ----
(***************************************************************************)
(* moq-pub DASH publisher: the incremental box reader (next_atom), the     *)
(* per-representation state machine of Publisher (publish / parse /        *)
(* parse_atom / setup), the Track publisher (header / data / end_group)    *)
(* and the watcher loop that drives it (MoqWatcher::run / send_chunk).     *)
(*                                                                         *)
(* Bytes are naturals 0..255, byte strings are sequences of bytes, and an  *)
(* Option<T> is a sequence of length 0 (None) or 1 (Some).  The widths of  *)
(* u32 and u64 are scaled down to U32Bits and U64Bits bits so that the     *)
(* arithmetic of Track::header stays inside the checker's integers while   *)
(* keeping the relation 2^64 / 2^32 >= timescale of the program.           *)
(***************************************************************************)
EXTENDS Integers, Sequences, FiniteSets, TLC

\* ---------------------------------------------------------------- bounds
\* largest number of bytes handed to one publish call
MaxChunk == 12
\* representation ids are 0 .. MaxRep
MaxRep == 2
\* modelled width of u32 (priority, milliseconds)
U32Bits == 10
\* modelled width of u64 (timestamps, the product 1000 * timestamp)
U64Bits == 20

RepIDs == 0 .. MaxRep

None == << >>

Some(x) == << x >>

RECURSIVE Pow2(_)
Pow2(n) == IF n = 0 THEN 1 ELSE 2 * Pow2(n - 1)

\* u32::MAX at the modelled width
U32MAX == Pow2(U32Bits) - 1

\* 2^64 at the modelled width
W64 == Pow2(U64Bits)

\* ------------------------------------------------------ byte strings
\* bytes::Buf::get_u32 (big endian) on the first four bytes of b
GetU32(b) == ((b[1] * 256 + b[2]) * 256 + b[3]) * 256 + b[4]

\* bytes::Buf::get_u64 (big endian) on the first eight bytes of b; a value
\* of 2^32 or more is larger than every buffer and is kept as the largest
\* representable size
GetU64(b) ==
    IF GetU32(SubSeq(b, 1, 4)) > 0 THEN 2147483647 ELSE GetU32(SubSeq(b, 5, 8))

BE16(n) == << (n \div 256) % 256, n % 256 >>

BE24(n) == << (n \div 65536) % 256, (n \div 256) % 256, n % 256 >>

BE32(n) == << (n \div 16777216) % 128, (n \div 65536) % 256, (n \div 256) % 256, n % 256 >>

BE64(n) == << 0, 0, 0, 0 >> \o BE32(n)

Drop(s, n) == SubSeq(s, n + 1, Len(s))

Take(s, n) == SubSeq(s, 1, n)

\* four-character codes
FTYP == << 102, 116, 121, 112 >>

MOOV == << 109, 111, 111, 118 >>

MOOF == << 109, 111, 111, 102 >>

MDAT == << 109, 100, 97, 116 >>

PRFT == << 112, 114, 102, 116 >>

FREE == << 102, 114, 101, 101 >>

\* a box with a 32-bit length
Box(type, payload) == BE32(8 + Len(payload)) \o type \o payload

\* a box with length 1 and a 64-bit extended length
BoxExt(type, payload) == BE32(1) \o type \o BE64(16 + Len(payload)) \o payload

\* ------------------------------------------------------------ next_atom
\* next_atom that waits for more bytes when the 32-bit length is in 2..7
next_atom_waiting(b) ==
    IF Len(b) < 8 THEN [ret |-> "None", atom |-> << >>, rest |-> b]
    ELSE LET size32 == GetU32(b) IN
         IF size32 = 0 THEN [ret |-> "Err", atom |-> << >>, rest |-> b]
         ELSE IF size32 = 1 /\ Len(b) < 16 THEN [ret |-> "Panic", atom |-> << >>, rest |-> b]
         ELSE IF size32 = 1 /\ GetU64(Drop(b, 8)) < 16 THEN [ret |-> "Err", atom |-> << >>, rest |-> b]
         ELSE IF size32 \in 2 .. 7 THEN [ret |-> "None", atom |-> << >>, rest |-> b]
         ELSE LET size == IF size32 = 1 THEN GetU64(Drop(b, 8)) ELSE size32 IN
              IF Len(b) < size THEN [ret |-> "None", atom |-> << >>, rest |-> b]
              ELSE [ret |-> "Some", atom |-> Take(b, size), rest |-> Drop(b, size)]

\* The buffer is a BytesMut: chunk() is the whole buffer, so the "vectored
\* Buf" branch (remaining != chunk().len()) cannot be taken.
\* peek.get_u64() panics when fewer than 8 bytes follow the 8-byte header.
next_atom(b) ==
    IF Len(b) < 8 THEN [ret |-> "None", atom |-> << >>, rest |-> b]
    ELSE LET size32 == GetU32(b) IN
         IF size32 = 0 THEN [ret |-> "Err", atom |-> << >>, rest |-> b]
         ELSE IF size32 = 1 /\ Len(b) < 16 THEN [ret |-> "Panic", atom |-> << >>, rest |-> b]
         ELSE IF size32 = 1 /\ GetU64(Drop(b, 8)) < 16 THEN [ret |-> "Err", atom |-> << >>, rest |-> b]
         ELSE IF size32 \in 2 .. 7 THEN [ret |-> "Err", atom |-> << >>, rest |-> b]
         ELSE LET size == IF size32 = 1 THEN GetU64(Drop(b, 8)) ELSE size32 IN
              IF Len(b) < size THEN [ret |-> "None", atom |-> << >>, rest |-> b]
              ELSE [ret |-> "Some", atom |-> Take(b, size), rest |-> Drop(b, size)]

\* ------------------------------------------------- box decoding (mp4)
\* mp4::BoxHeader::read: the type tag and the length of the header that
\* precedes the payload (8 bytes, or 16 with an extended length)
BoxName(atom) == SubSeq(atom, 5, 8)

BoxPayload(atom) == IF GetU32(atom) = 1 THEN Drop(atom, 16) ELSE Drop(atom, 8)

\* hdlr handler_type as carried on the wire
HandlerFourCC(b) ==
    CASE b = 1 -> "vide" [] b = 2 -> "soun" [] b = 3 -> "sbtl" [] OTHER -> "meta"

\* the sample entry of stsd: at most one of avc1 / hev1 / mp4a / vp09
Stsd(c, f1, f2) ==
    [avc1 |-> IF c = 1 THEN Some([width |-> f1, height |-> f2]) ELSE None,
     hev1 |-> IF c = 2 THEN Some([width |-> f1, height |-> f2]) ELSE None,
     mp4a |-> IF c = 3 THEN Some([esds |-> Some([max_bitrate |-> f1, avg_bitrate |-> f2])])
              ELSE IF c = 4 THEN Some([esds |-> None]) ELSE None,
     vp09 |-> IF c = 5 THEN Some([width |-> f1, height |-> f2]) ELSE None]

\* one trak: << handler, timescale (2 bytes), codec, f1, f2 >>
ReadTrak(w, id) ==
    [track_id |-> id,
     handler_type |-> HandlerFourCC(w[1]),
     timescale |-> w[2] * 256 + w[3],
     stsd |-> Stsd(w[4], w[5], w[6])]

\* mp4::MoovBox::read_box: << number of traks >> followed by the traks
ReadMoov(atom) ==
    LET p == BoxPayload(atom) IN
    IF Len(p) < 1 \/ Len(p) # 1 + 6 * p[1]
    THEN [ok |-> FALSE, moov |-> [traks |-> << >>]]
    ELSE [ok |-> TRUE,
          moov |-> [traks |-> [i \in 1 .. p[1] |-> ReadTrak(SubSeq(p, 6 * i - 4, 6 * i + 1), i)]]]

\* sample flags on the wire: 255 is "absent", otherwise bit 0 is
\* sample_is_non_sync_sample (bit 16 of the u32) and bits 1-2 are
\* sample_depends_on (bits 24-25 of the u32)
Flags32(b) == (b \div 2) * 16777216 + (b % 2) * 65536

OptFlags(b) == IF b = 255 THEN None ELSE Some(Flags32(b))

\* length on the wire of the traf that starts w
TrafLen(w) == IF Len(w) < 9 THEN 9 ELSE 9 + w[9]

\* one traf: << has_tfdt, base_media_decode_time (3 bytes), default flags,
\*             has_trun, sample_count, first_sample_flags, n, n sample flags >>
ReadTraf(w) ==
    [tfhd |-> [default_sample_flags |-> OptFlags(w[5])],
     tfdt |-> IF w[1] = 1
              THEN Some([base_media_decode_time |-> (w[2] * 256 + w[3]) * 256 + w[4]])
              ELSE None,
     trun |-> IF w[6] = 1
              THEN Some([sample_count |-> w[7],
                         first_sample_flags |-> OptFlags(w[8]),
                         sample_flags |-> [i \in 1 .. w[9] |-> Flags32(w[9 + i])]])
              ELSE None]

RECURSIVE ReadTrafs(_, _)
ReadTrafs(w, n) ==
    IF n = 0 THEN (IF Len(w) = 0 THEN [ok |-> TRUE, trafs |-> << >>]
                   ELSE [ok |-> FALSE, trafs |-> << >>])
    ELSE IF Len(w) < TrafLen(w) THEN [ok |-> FALSE, trafs |-> << >>]
    ELSE LET rest == ReadTrafs(Drop(w, TrafLen(w)), n - 1) IN
         [ok |-> rest.ok, trafs |-> << ReadTraf(w) >> \o rest.trafs]

\* mp4::MoofBox::read_box: << number of trafs >> followed by the trafs
ReadMoof(atom) ==
    LET p == BoxPayload(atom) IN
    IF Len(p) < 1 THEN [ok |-> FALSE, moof |-> [trafs |-> << >>]]
    ELSE LET r == ReadTrafs(Drop(p, 1), p[1]) IN
         [ok |-> r.ok, moof |-> [trafs |-> r.trafs]]

\* ------------------------------------------------------------- Fragment
sample_timestamp(moof) ==
    IF Len(moof.trafs) = 0 THEN None
    ELSE IF moof.trafs[1].tfdt = None THEN None
    ELSE Some(moof.trafs[1].tfdt[1].base_media_decode_time)

\* SampleFlags in which first_sample_flags only fills in for a sample 0
\* that has no flags of its own
SampleFlagsOwnFirst(traf, i) ==
    LET trun == traf.trun[1]
        default_flags == IF traf.tfhd.default_sample_flags = None THEN 0
                         ELSE traf.tfhd.default_sample_flags[1]
    IN IF i + 1 <= Len(trun.sample_flags) THEN trun.sample_flags[i + 1]
       ELSE IF i = 0 /\ trun.first_sample_flags # None THEN trun.first_sample_flags[1]
       ELSE default_flags

\* flags of sample i (0-based) of a traf with a trun
SampleFlags(traf, i) ==
    LET trun == traf.trun[1]
        default_flags == IF traf.tfhd.default_sample_flags = None THEN 0
                         ELSE traf.tfhd.default_sample_flags[1]
        flags == IF i + 1 <= Len(trun.sample_flags) THEN trun.sample_flags[i + 1]
                 ELSE default_flags
    IN IF i = 0 /\ trun.first_sample_flags # None THEN trun.first_sample_flags[1]
       ELSE flags

\* the keyframe test without the mask on the sample_depends_on bits
FlagsKeyframeUnmasked(flags) ==
    LET keyframe == (flags \div 16777216) = 2
        non_sync == (flags \div 65536) % 2 = 1
    IN keyframe /\ ~non_sync

\* kSampleDependsOnNoOther and not kSampleIsNonSyncSample
FlagsKeyframe(flags) ==
    LET keyframe == (flags \div 16777216) % 4 = 2
        non_sync == (flags \div 65536) % 2 = 1
    IN keyframe /\ ~non_sync

RECURSIVE TrafsKeyframe(_, _)
TrafsKeyframe(trafs, k) ==
    IF k > Len(trafs) THEN FALSE
    ELSE IF trafs[k].trun = None THEN FALSE
    ELSE IF \E i \in 0 .. trafs[k].trun[1].sample_count - 1 :
                FlagsKeyframe(SampleFlags(trafs[k], i)) THEN TRUE
    ELSE TrafsKeyframe(trafs, k + 1)

sample_keyframe(moof) == TrafsKeyframe(moof.trafs, 1)

\* Fragment::new that describes the first traf of a moof with several
FragmentNewFirstTraf(moof) ==
    IF Len(moof.trafs) = 0
    THEN [ret |-> "Err:mp4:multiple tracks per moof atom", fragment |-> None]
    ELSE IF sample_timestamp(moof) = None
    THEN [ret |-> "Panic", fragment |-> None]
    ELSE [ret |-> "Ok",
          fragment |-> Some([timestamp |-> sample_timestamp(moof)[1],
                             keyframe |-> sample_keyframe(moof)])]

\* Fragment::new: ret is "Ok", the multi-track error, or "Panic" (expect)
FragmentNew(moof) ==
    IF Len(moof.trafs) # 1
    THEN [ret |-> "Err:mp4:multiple tracks per moof atom", fragment |-> None]
    ELSE IF sample_timestamp(moof) = None
    THEN [ret |-> "Panic", fragment |-> None]
    ELSE [ret |-> "Ok",
          fragment |-> Some([timestamp |-> sample_timestamp(moof)[1],
                             keyframe |-> sample_keyframe(moof)])]

\* FragmentMillis with the conversion to milliseconds applied after the
\* division instead of before it
FragmentMillisDivFirst(timestamp, timescale, overflow_checks) ==
    IF timescale = 0 THEN [panic |-> TRUE, ms |-> 0]
    ELSE [panic |-> FALSE, ms |-> (1000 * (timestamp \div timescale)) % W64]

\* Fragment::timestamp(timescale).as_millis(): 1000 * timestamp in u64
\* (wrapping in a release build, a panic with overflow checks), divided by
\* the timescale (a panic when it is 0)
FragmentMillis(timestamp, timescale, overflow_checks) ==
    IF 1000 * timestamp >= W64 /\ overflow_checks THEN [panic |-> TRUE, ms |-> 0]
    ELSE IF timescale = 0 THEN [panic |-> TRUE, ms |-> 0]
    ELSE [panic |-> FALSE, ms |-> ((1000 * timestamp) % W64) \div timescale]

\* -------------------------------------------------------------- Settings
\* the settings file: the audio representations come first, then the video
Settings ==
    [audio |-> << [name |-> "audio0", bitrate |-> 128] >>,
     video |-> << [name |-> "video0", bitrate |-> 3000] >>]

rep_len == Len(Settings.audio) + Len(Settings.video)

get_rep(index) ==
    IF index >= rep_len THEN None
    ELSE IF index < Len(Settings.audio)
    THEN Some([kind |-> "Audio", name |-> Settings.audio[index + 1].name,
               bitrate |-> Settings.audio[index + 1].bitrate])
    ELSE Some([kind |-> "Video", name |-> Settings.video[index - Len(Settings.audio) + 1].name,
               bitrate |-> Settings.video[index - Len(Settings.audio) + 1].bitrate])

\* ------------------------------------------------------------ transport
\* The publisher state P is the record of the Publisher's fields, the
\* transport objects it holds, and the environment it runs in:
\*   buf, ftyp, moov, prft, tracks, catalog      fields of Publisher
\*   broadcast          every transport track created, with its groups
\*   catalog_broadcast  the groups of the ".catalog" track
\*   closed             the transport handles that no longer accept writes
\*   overflow_checks    whether the build panics on integer overflow
\*   cut                every atom next_atom has returned, per representation

\* TracksWriter::create
TracksCreate(P, name) ==
    IF "broadcast" \in P.closed THEN [ok |-> FALSE, st |-> P, track |-> 0]
    ELSE [ok |-> TRUE,
          st |-> [P EXCEPT !.broadcast = Append(@, [name |-> name, groups |-> << >>])],
          track |-> Len(P.broadcast) + 1]

\* GroupsWriter::append on a media track
GroupsAppend(P, tid, priority) ==
    IF "broadcast" \in P.closed THEN [ok |-> FALSE, st |-> P, group |-> 0]
    ELSE [ok |-> TRUE,
          st |-> [P EXCEPT !.broadcast[tid].groups =
                               Append(@, [priority |-> priority, objects |-> << >>])],
          group |-> Len(P.broadcast[tid].groups) + 1]

\* GroupWriter::write on a group of a media track
GroupWrite(P, tid, gid, raw) ==
    IF "broadcast" \in P.closed THEN [ok |-> FALSE, st |-> P]
    ELSE [ok |-> TRUE,
          st |-> [P EXCEPT !.broadcast[tid].groups[gid].objects = Append(@, raw)]]

\* catalog_broadcast.append(0) followed by write(buf)
CatalogPublish(P, obj) ==
    IF "catalog" \in P.closed THEN [ok |-> FALSE, st |-> P]
    ELSE [ok |-> TRUE,
          st |-> [P EXCEPT !.catalog_broadcast =
                               Append(@, [priority |-> 0, objects |-> << obj >>])]]

\* ---------------------------------------------------------------- Track
TrackNew(tid, handler, timescale) ==
    [track |-> tid, current |-> None, timescale |-> timescale, handler |-> handler]

\* end_group that leaves the group open
end_group_kept(track) == track

\* Track::end_group
end_group(track) == [track EXCEPT !.current = None]

\* checked_sub with the priority growing with time
checked_sub_rising(timestamp) == timestamp

\* u32::MAX.checked_sub(timestamp); the timestamp is a u32, so it is Some
checked_sub(timestamp) == U32MAX - timestamp

\* Track::header that writes only the header that opens a group
TrackHeaderOpening(P, r, raw, fragment) ==
    LET track == P.tracks[r][1] IN
    IF track.current # None THEN [st |-> P, ret |-> "Ok"]
    ELSE LET m == FragmentMillis(fragment.timestamp, track.timescale, P.overflow_checks) IN
         IF m.panic THEN [st |-> P, ret |-> "Panic"]
         ELSE IF m.ms > U32MAX THEN [st |-> P, ret |-> "Err:moq:timestamp"]
         ELSE LET priority == checked_sub(m.ms)
                  a == GroupsAppend(P, track.track, priority)
              IN IF ~a.ok THEN [st |-> P, ret |-> "Err:moq:append"]
                 ELSE LET w == GroupWrite(a.st, track.track, a.group, raw) IN
                      IF ~w.ok THEN [st |-> a.st, ret |-> "Err:moq:write"]
                      ELSE [st |-> [w.st EXCEPT !.tracks[r] =
                                        Some([track EXCEPT !.current = Some(a.group)])],
                            ret |-> "Ok"]

\* Track::header
TrackHeader(P, r, raw, fragment) ==
    LET track == P.tracks[r][1] IN
    IF track.current # None
    THEN LET w == GroupWrite(P, track.track, track.current[1], raw) IN
         IF w.ok THEN [st |-> w.st, ret |-> "Ok"]
         ELSE [st |-> P, ret |-> "Err:moq:write"]
    ELSE LET m == FragmentMillis(fragment.timestamp, track.timescale, P.overflow_checks) IN
         IF m.panic THEN [st |-> P, ret |-> "Panic"]
         ELSE IF m.ms > U32MAX THEN [st |-> P, ret |-> "Err:moq:timestamp"]
         ELSE LET priority == checked_sub(m.ms)
                  a == GroupsAppend(P, track.track, priority)
              IN IF ~a.ok THEN [st |-> P, ret |-> "Err:moq:append"]
                 ELSE LET w == GroupWrite(a.st, track.track, a.group, raw) IN
                      IF ~w.ok THEN [st |-> a.st, ret |-> "Err:moq:write"]
                      ELSE [st |-> [w.st EXCEPT !.tracks[r] =
                                        Some([track EXCEPT !.current = Some(a.group)])],
                            ret |-> "Ok"]

\* Track::data that lets a payload pass when no group is open
TrackDataUnchecked(P, r, raw) ==
    LET track == P.tracks[r][1] IN
    IF track.current = None THEN [st |-> P, ret |-> "Ok"]
    ELSE LET w == GroupWrite(P, track.track, track.current[1], raw) IN
         IF w.ok THEN [st |-> w.st, ret |-> "Ok"]
         ELSE [st |-> P, ret |-> "Err:moq:write"]

\* Track::data that reports success without writing
TrackDataDropped(P, r, raw) ==
    LET track == P.tracks[r][1] IN
    IF track.current = None THEN [st |-> P, ret |-> "Err:moq:missing current fragment"]
    ELSE [st |-> P, ret |-> "Ok"]

\* Track::data
TrackData(P, r, raw) ==
    LET track == P.tracks[r][1] IN
    IF track.current = None THEN [st |-> P, ret |-> "Err:moq:missing current fragment"]
    ELSE LET w == GroupWrite(P, track.track, track.current[1], raw) IN
         IF w.ok THEN [st |-> w.st, ret |-> "Ok"]
         ELSE [st |-> P, ret |-> "Err:moq:write"]

\* -------------------------------------------------------------- catalog
\* base64 (standard alphabet): sextets 0..63, and 64 for the padding '='
RECURSIVE Base64(_)
Base64(b) ==
    IF Len(b) = 0 THEN << >>
    ELSE IF Len(b) = 1 THEN << b[1] \div 4, (b[1] % 4) * 16, 64, 64 >>
    ELSE IF Len(b) = 2
    THEN << b[1] \div 4, (b[1] % 4) * 16 + b[2] \div 16, (b[2] % 16) * 4, 64 >>
    ELSE << b[1] \div 4, (b[1] % 4) * 16 + b[2] \div 16,
            (b[2] % 16) * 4 + b[3] \div 64, b[3] % 64 >> \o Base64(Drop(b, 3))

\* SelectionParams::new
SelectionParamsNew ==
    [codec |-> None, mime_type |-> None, bitrate |-> None,
     width |-> None, height |-> None, sample_rate |-> None]

\* the descriptor with the initialization data left as raw bytes
CatalogTrackRaw(name, params, init) ==
    [name |-> name, packaging |-> "cmaf", label |-> Some(name),
     init_data |-> Some(init), selection_params |-> Some(params)]

\* moq_catalog::Track::new followed by set_selection_params, set_init_data
\* and set_label
CatalogTrack(name, params, init) ==
    [name |-> name, packaging |-> "cmaf", label |-> Some(name),
     init_data |-> Some(Base64(init)), selection_params |-> Some(params)]

\* MoqCatalog::new, enable_delta_updates, set_common_track_fields
CatalogNew ==
    [version |-> "1", streaming_format |-> "1", streaming_format_version |-> "1",
     supports_delta_updates |-> Some(TRUE),
     common_track_fields |-> Some([name |-> "", packaging |-> "cmaf", alt_group |-> Some(1),
                                   label |-> Some("Dash MoQ"), namespace |-> Some("ns")]),
     tracks |-> None, catalogs |-> None]

\* insert_track that starts the list over with the new track
insert_track_alone(catalog, track) ==
    IF catalog.catalogs # None THEN [ok |-> FALSE, catalog |-> catalog]
    ELSE [ok |-> TRUE, catalog |-> [catalog EXCEPT !.tracks = Some(<< track >>)]]

\* MoqCatalog::insert_track
insert_track(catalog, track) ==
    IF catalog.catalogs # None THEN [ok |-> FALSE, catalog |-> catalog]
    ELSE [ok |-> TRUE,
          catalog |-> [catalog EXCEPT !.tracks =
                           IF @ = None THEN Some(<< track >>) ELSE Some(Append(@[1], track))]]

\* Track serialization that leaves the initialization data out
EncodeTrackNoInit(t) ==
    [name |-> t.name, packaging |-> t.packaging, label |-> t.label,
     initData |-> None,
     selectionParams |->
         IF t.selection_params = None THEN None
         ELSE Some([codec |-> t.selection_params[1].codec,
                    mimeType |-> t.selection_params[1].mime_type,
                    bitrate |-> t.selection_params[1].bitrate,
                    width |-> t.selection_params[1].width,
                    height |-> t.selection_params[1].height,
                    samplerate |-> t.selection_params[1].sample_rate])]

\* Serialize for Track and SelectionParams, keyed by the serde names
EncodeTrack(t) ==
    [name |-> t.name, packaging |-> t.packaging, label |-> t.label,
     initData |-> t.init_data,
     selectionParams |->
         IF t.selection_params = None THEN None
         ELSE Some([codec |-> t.selection_params[1].codec,
                    mimeType |-> t.selection_params[1].mime_type,
                    bitrate |-> t.selection_params[1].bitrate,
                    width |-> t.selection_params[1].width,
                    height |-> t.selection_params[1].height,
                    samplerate |-> t.selection_params[1].sample_rate])]

\* MoqCatalog::default
MoqCatalogDefault ==
    [version |-> "1", streaming_format |-> "1", streaming_format_version |-> "1",
     supports_delta_updates |-> None, common_track_fields |-> None,
     tracks |-> None, catalogs |-> None]


\* Serialize for CommonStructFields
EncodeCommon(c) ==
    [namespace |-> c.namespace, name |-> c.name, packaging |-> c.packaging,
     label |-> c.label, altGroup |-> c.alt_group]

\* Serialize for Catalog
EncodeEntry(e) ==
    [streamingFormat |-> e.streaming_format,
     streamingFormatVersion |-> e.streaming_format_version,
     supportsDeltaUpdates |-> e.supports_delta_updates,
     namespace |-> e.namespace, name |-> e.name]

\* MoqCatalog::encode: the JSON document, keyed by the serde names; a None
\* is written as null
encode(catalog) ==
    [version |-> catalog.version,
     streamingFormat |-> catalog.streaming_format,
     streamingFormatVersion |-> catalog.streaming_format_version,
     supportsDeltaUpdates |-> catalog.supports_delta_updates,
     commonTrackFields |-> IF catalog.common_track_fields = None THEN None
                           ELSE Some(EncodeCommon(catalog.common_track_fields[1])),
     tracks |-> IF catalog.tracks = None THEN None
                ELSE Some([i \in 1 .. Len(catalog.tracks[1]) |-> EncodeTrack(catalog.tracks[1][i])]),
     catalogs |-> IF catalog.catalogs = None THEN None
                  ELSE Some([i \in 1 .. Len(catalog.catalogs[1]) |->
                                 EncodeEntry(catalog.catalogs[1][i])])]

\* Deserialize of an Option field: a missing key and a null both give None
Opt(doc, key) == IF key \in DOMAIN doc THEN doc[key] ELSE None

\* Deserialize for SelectionParams
DecodeParams(doc) ==
    [codec |-> Opt(doc, "codec"), mime_type |-> Opt(doc, "mimeType"),
     bitrate |-> Opt(doc, "bitrate"), width |-> Opt(doc, "width"),
     height |-> Opt(doc, "height"), sample_rate |-> Opt(doc, "samplerate")]

\* Deserialize for Track
DecodeTrack(doc) ==
    [name |-> doc.name, packaging |-> doc.packaging, label |-> Opt(doc, "label"),
     init_data |-> Opt(doc, "initData"),
     selection_params |-> IF Opt(doc, "selectionParams") = None THEN None
                          ELSE Some(DecodeParams(doc.selectionParams[1]))]

\* Deserialize for CommonStructFields
DecodeCommon(doc) ==
    [name |-> doc.name, packaging |-> doc.packaging, alt_group |-> Opt(doc, "altGroup"),
     label |-> Opt(doc, "label"), namespace |-> Opt(doc, "namespace")]

\* Deserialize for Catalog
DecodeEntry(doc) ==
    [streaming_format |-> doc.streamingFormat,
     streaming_format_version |-> doc.streamingFormatVersion,
     supports_delta_updates |-> Opt(doc, "supportsDeltaUpdates"),
     namespace |-> Opt(doc, "namespace"), name |-> doc.name]

\* Deserialize for MoqCatalog: the fields that are not an Option are required
decode(doc) ==
    IF ~({"version", "streamingFormat", "streamingFormatVersion"} \subseteq DOMAIN doc)
    THEN [ok |-> FALSE, catalog |-> MoqCatalogDefault]
    ELSE [ok |-> TRUE,
          catalog |->
              [version |-> doc.version,
               streaming_format |-> doc.streamingFormat,
               streaming_format_version |-> doc.streamingFormatVersion,
               supports_delta_updates |-> Opt(doc, "supportsDeltaUpdates"),
               common_track_fields |->
                   IF Opt(doc, "commonTrackFields") = None THEN None
                   ELSE Some(DecodeCommon(doc.commonTrackFields[1])),
               tracks |->
                   IF Opt(doc, "tracks") = None THEN None
                   ELSE Some([i \in 1 .. Len(doc.tracks[1]) |-> DecodeTrack(doc.tracks[1][i])]),
               catalogs |->
                   IF Opt(doc, "catalogs") = None THEN None
                   ELSE Some([i \in 1 .. Len(doc.catalogs[1]) |->
                                  DecodeEntry(doc.catalogs[1][i])])]]

\* moq_catalog::Track::new(name, Packaging::CMAF)
CatalogTrackNew(name) ==
    [name |-> name, packaging |-> "cmaf", label |-> None,
     init_data |-> None, selection_params |-> None]

\* moq_catalog::Catalog::new(name)
CatalogEntryNew(name) ==
    [streaming_format |-> "1", streaming_format_version |-> "1",
     supports_delta_updates |-> None, namespace |-> None, name |-> name]

\* MoqCatalog::set_tracks
set_tracks(catalog, tracks) ==
    IF catalog.catalogs # None THEN [ok |-> FALSE, catalog |-> catalog]
    ELSE [ok |-> TRUE, catalog |-> [catalog EXCEPT !.tracks = Some(tracks)]]

\* set_catalog without the test for tracks
set_catalog_unchecked(catalog, entries) ==
    [ok |-> TRUE, catalog |-> [catalog EXCEPT !.catalogs = Some(entries)]]

\* MoqCatalog::set_catalog
set_catalog(catalog, entries) ==
    IF catalog.tracks # None THEN [ok |-> FALSE, catalog |-> catalog]
    ELSE [ok |-> TRUE, catalog |-> [catalog EXCEPT !.catalogs = Some(entries)]]

\* MoqCatalog::insert_catalog
insert_catalog(catalog, entry) ==
    IF catalog.tracks # None THEN [ok |-> FALSE, catalog |-> catalog]
    ELSE [ok |-> TRUE,
          catalog |-> [catalog EXCEPT !.catalogs =
                           IF @ = None THEN Some(<< entry >>) ELSE Some(Append(@[1], entry))]]

\* ------------------------------------------------------------ Publisher
\* mp4::TrackType::try_from(&FourCC)
TrackType(fourcc) ==
    CASE fourcc = "vide" -> Some("Video")
      [] fourcc = "soun" -> Some("Audio")
      [] fourcc = "sbtl" -> Some("Subtitle")
      [] OTHER -> None

\* track_timescale: the trak is looked up by the id of traks[0]
track_timescale(moov, track_id) ==
    (CHOOSE trak \in {moov.traks[i] : i \in 1 .. Len(moov.traks)} :
         trak.track_id = track_id).timescale

\* the codec branches with an hev1 entry described like an avc1 entry
SetupParamsWithHevc(stsd, settings) ==
    IF stsd.avc1 # None \/ stsd.hev1 # None
    THEN LET entry == IF stsd.avc1 # None THEN stsd.avc1[1] ELSE stsd.hev1[1] IN
         [ret |-> "Ok",
          params |-> [SelectionParamsNew EXCEPT
                          !.height = Some(entry.height),
                          !.width = Some(entry.width),
                          !.codec = Some("avc1.64001f"),
                          !.bitrate = Some(IF settings.kind = "Video" THEN settings.bitrate ELSE 0),
                          !.mime_type = Some("video/mp4")]]
    ELSE IF stsd.mp4a # None
    THEN IF stsd.mp4a[1].esds = None
         THEN [ret |-> "Err:Missing", params |-> SelectionParamsNew]
         ELSE LET desc == stsd.mp4a[1].esds[1]
                  bitrate == IF desc.max_bitrate > desc.avg_bitrate
                             THEN desc.max_bitrate ELSE desc.avg_bitrate
              IN [ret |-> "Ok",
                  params |-> [SelectionParamsNew EXCEPT
                                  !.codec = Some("mp4a.40.2"),
                                  !.sample_rate = Some(48000),
                                  !.mime_type = Some("audio/mp4"),
                                  !.bitrate = IF bitrate > 0 THEN Some(bitrate) ELSE None]]
    ELSE IF stsd.vp09 # None
    THEN [ret |-> "Err:pub:VP9 not yet supported", params |-> SelectionParamsNew]
    ELSE [ret |-> "Err:pub:unknown codec", params |-> SelectionParamsNew]

\* the codec branches of Publisher::setup: the selection parameters, or the
\* error the branch returns
SetupParams(stsd, settings) ==
    IF stsd.avc1 # None
    THEN [ret |-> "Ok",
          params |-> [SelectionParamsNew EXCEPT
                          !.height = Some(stsd.avc1[1].height),
                          !.width = Some(stsd.avc1[1].width),
                          !.codec = Some("avc1.64001f"),
                          !.bitrate = Some(IF settings.kind = "Video" THEN settings.bitrate ELSE 0),
                          !.mime_type = Some("video/mp4")]]
    ELSE IF stsd.hev1 # None
    THEN [ret |-> "Err:pub:HEVC not yet supported", params |-> SelectionParamsNew]
    ELSE IF stsd.mp4a # None
    THEN IF stsd.mp4a[1].esds = None
         THEN [ret |-> "Err:Missing", params |-> SelectionParamsNew]
         ELSE LET desc == stsd.mp4a[1].esds[1]
                  bitrate == IF desc.max_bitrate > desc.avg_bitrate
                             THEN desc.max_bitrate ELSE desc.avg_bitrate
              IN [ret |-> "Ok",
                  params |-> [SelectionParamsNew EXCEPT
                                  !.codec = Some("mp4a.40.2"),
                                  !.sample_rate = Some(48000),
                                  !.mime_type = Some("audio/mp4"),
                                  !.bitrate = IF bitrate > 0 THEN Some(bitrate) ELSE None]]
    ELSE IF stsd.vp09 # None
    THEN [ret |-> "Err:pub:VP9 not yet supported", params |-> SelectionParamsNew]
    ELSE [ret |-> "Err:pub:unknown codec", params |-> SelectionParamsNew]

\* Publisher::setup
setup(P, moov, raw, rep_id) ==
    IF Len(moov.traks) # 1 THEN [st |-> P, ret |-> "Err:mp4:multiple tracks in moov"]
    ELSE IF get_rep(rep_id) = None THEN [st |-> P, ret |-> "Err:Missing"]
    ELSE
    LET settings == get_rep(rep_id)[1]
        track_name == settings.name
        trak == moov.traks[1]
        timescale == track_timescale(moov, trak.track_id)
        handler == TrackType(trak.handler_type)
    IN
    IF handler = None THEN [st |-> P, ret |-> "Err:mp4:cannot convert handler type"]
    ELSE
    LET c == TracksCreate(P, track_name) IN
    IF ~c.ok THEN [st |-> P, ret |-> "Err:moq_transport:broadcast closed"]
    ELSE
    LET P1 == [c.st EXCEPT !.tracks[rep_id] = Some(TrackNew(c.track, handler[1], timescale))] IN
    IF P1.ftyp[rep_id] = None THEN [st |-> P1, ret |-> "Err:mp4:missing ftyp for track"]
    ELSE
    LET init == P1.ftyp[rep_id][1] \o raw
        sp == SetupParams(trak.stsd, settings)
    IN
    IF sp.ret # "Ok" THEN [st |-> P1, ret |-> sp.ret]
    ELSE
    LET ins == insert_track(P1.catalog, CatalogTrack(track_name, sp.params, init)) IN
    IF ~ins.ok THEN [st |-> P1, ret |-> "Err:moq_catalog"]
    ELSE
    LET P2 == [P1 EXCEPT !.catalog = ins.catalog]
        w == CatalogPublish(P2, encode(P2.catalog))
    IN
    IF ~w.ok THEN [st |-> P2, ret |-> "Err:moq"]
    ELSE [st |-> w.st, ret |-> "Ok"]

\* the FtypBox arm with one type box kept for all representations
ParseFtypShared(P, rep_id, atom) ==
    IF P.ftyp[rep_id] # None THEN [st |-> P, ret |-> "Err:mp4:multiple ftyp on track"]
    ELSE [st |-> [P EXCEPT !.ftyp = [r \in RepIDs |-> Some(atom)]], ret |-> "Ok(true)"]

\* parse_atom, FtypBox arm
ParseFtyp(P, rep_id, atom) ==
    IF P.ftyp[rep_id] # None THEN [st |-> P, ret |-> "Err:mp4:multiple ftyp on track"]
    ELSE [st |-> [P EXCEPT !.ftyp[rep_id] = Some(atom)], ret |-> "Ok(true)"]

\* the MoovBox arm without the check for a stored moov
ParseMoovAgain(P, rep_id, atom) ==
    LET m == ReadMoov(atom) IN
    IF ~m.ok THEN [st |-> P, ret |-> "Err:mp4:read_box"]
    ELSE LET s == setup(P, m.moov, atom, rep_id) IN
         IF s.ret # "Ok" THEN s
         ELSE [st |-> [s.st EXCEPT !.moov[rep_id] = Some(m.moov)], ret |-> "Ok(true)"]

\* parse_atom, MoovBox arm
ParseMoov(P, rep_id, atom) ==
    IF P.moov[rep_id] # None THEN [st |-> P, ret |-> "Err:mp4:multiple moov on track"]
    ELSE LET m == ReadMoov(atom) IN
         IF ~m.ok THEN [st |-> P, ret |-> "Err:mp4:read_box"]
         ELSE LET s == setup(P, m.moov, atom, rep_id) IN
              IF s.ret # "Ok" THEN s
              ELSE [st |-> [s.st EXCEPT !.moov[rep_id] = Some(m.moov)], ret |-> "Ok(true)"]

\* the group boundary rule without the handler test
ClosesGroupAnyHandler(fragment, track) == fragment.keyframe

\* the group boundary rule of the MoofBox arm
ClosesGroup(fragment, track) == fragment.keyframe /\ track.handler = "Video"

\* parse_atom, MoofBox arm
ParseMoof(P, rep_id, atom) ==
    LET m == ReadMoof(atom) IN
    IF ~m.ok THEN [st |-> P, ret |-> "Err:mp4:read_box"]
    ELSE LET f == FragmentNew(m.moof) IN
         IF f.ret # "Ok" THEN [st |-> P, ret |-> f.ret]
         ELSE IF P.tracks[rep_id] = None THEN [st |-> P, ret |-> "Err:Missing"]
         ELSE LET fragment == f.fragment[1]
                  P1 == IF ClosesGroup(fragment, P.tracks[rep_id][1])
                        THEN [P EXCEPT !.tracks[rep_id] = Some(end_group(@[1]))]
                        ELSE P
                  h == TrackHeader(P1, rep_id, atom, fragment)
              IN IF h.ret = "Ok" THEN [st |-> h.st, ret |-> "Ok(true)"]
                 ELSE IF h.ret = "Panic" THEN h
                 ELSE [st |-> h.st, ret |-> "Err:moq"]

\* parse_atom, MdatBox arm
ParseMdat(P, rep_id, atom) ==
    IF P.tracks[rep_id] = None THEN [st |-> P, ret |-> "Err:Missing"]
    ELSE LET data == IF P.prft[rep_id] # None THEN atom \o P.prft[rep_id][1] ELSE atom
             d == TrackData(P, rep_id, data)
         IN IF d.ret = "Ok" THEN [st |-> d.st, ret |-> "Ok(true)"]
            ELSE [st |-> d.st, ret |-> "Err:moq"]

\* the arm for other boxes, keeping the box as the pending auxiliary box
ParseOtherKept(P, rep_id, atom) ==
    [st |-> [P EXCEPT !.prft[rep_id] = Some(atom)], ret |-> "Ok(true)"]

\* parse_atom, the arm for every other box type
ParseOther(P, rep_id, atom) == [st |-> P, ret |-> "Ok(true)"]

\* parse_atom once next_atom has cut atom from the buffer: the header is
\* read and the box is handled by the arm of its type
dispatch(P0, rep_id, atom) ==
    LET name == BoxName(atom) IN
    IF name = PRFT THEN [st |-> [P0 EXCEPT !.prft[rep_id] = Some(atom)], ret |-> "Ok(true)"]
    ELSE IF name = FTYP THEN ParseFtyp(P0, rep_id, atom)
    ELSE IF name = MOOV THEN ParseMoov(P0, rep_id, atom)
    ELSE IF name = MOOF THEN ParseMoof(P0, rep_id, atom)
    ELSE IF name = MDAT THEN ParseMdat(P0, rep_id, atom)
    ELSE ParseOther(P0, rep_id, atom)

\* Publisher::parse_atom: ret is "Ok(true)", "Ok(false)", an error or "Panic"
parse_atom(P, rep_id) ==
    LET n == next_atom(P.buf[rep_id]) IN
    IF n.ret = "Err" THEN [st |-> P, ret |-> "Err:Other"]
    ELSE IF n.ret = "Panic" THEN [st |-> P, ret |-> "Panic"]
    ELSE IF n.ret = "None" THEN [st |-> P, ret |-> "Ok(false)"]
    ELSE dispatch([P EXCEPT !.buf[rep_id] = n.rest, !.cut[rep_id] = Append(@, n.atom)],
                  rep_id, n.atom)

\* a parse that drops the 8 header bytes next_atom could not accept before
\* it returns the error
RECURSIVE parse_dropping(_, _)
parse_dropping(P, rep_id) ==
    LET a == parse_atom(P, rep_id) IN
    IF a.ret = "Ok(true)" THEN parse_dropping(a.st, rep_id)
    ELSE IF a.ret = "Ok(false)" THEN [st |-> a.st, ret |-> "Ok"]
    ELSE IF a.ret = "Err:Other"
    THEN [st |-> [a.st EXCEPT !.buf[rep_id] = Drop(@, 8)], ret |-> a.ret]
    ELSE a

\* Publisher::parse: while self.parse_atom(rep_id)? {}
RECURSIVE parse(_, _)
parse(P, rep_id) ==
    LET a == parse_atom(P, rep_id) IN
    IF a.ret = "Ok(true)" THEN parse(a.st, rep_id)
    ELSE IF a.ret = "Ok(false)" THEN [st |-> a.st, ret |-> "Ok"]
    ELSE a

\* a publish that replaces the buffered bytes by the new chunk
publish_replacing(P, rep_id, data) ==
    parse([P EXCEPT !.buf[rep_id] = data], rep_id)

\* Publisher::publish
publish(P, rep_id, data) ==
    parse([P EXCEPT !.buf[rep_id] = @ \o data], rep_id)

\* ------------------------------------------------------------- inputs
RECURSIVE Concat(_)
Concat(boxes) == IF Len(boxes) = 0 THEN << >> ELSE boxes[1] \o Concat(Tail(boxes))

TrakW(handler, timescale, codec, f1, f2) == << handler >> \o BE16(timescale) \o << codec, f1, f2 >>

TrafW(has_tfdt, t, dflt, has_trun, count, first, flags) ==
    << has_tfdt >> \o BE24(t) \o << dflt, has_trun, count, first, Len(flags) >> \o flags

Ftyp == Box(FTYP, << >>)

\* a type box with one byte of brand
FtypOf(x) == Box(FTYP, << x >>)

\* one avc1 video trak
MoovV(timescale) == Box(MOOV, << 1 >> \o TrakW(1, timescale, 1, 64, 36))

\* one mp4a audio trak whose esds carries the bitrates
MoovA(max_bitrate, avg_bitrate) == Box(MOOV, << 1 >> \o TrakW(2, 480, 3, max_bitrate, avg_bitrate))

\* a moov with one trak of the given handler and sample entry
MoovOf(handler, codec) == Box(MOOV, << 1 >> \o TrakW(handler, 1000, codec, 64, 36))

Moov2 == Box(MOOV, << 2 >> \o TrakW(1, 1000, 1, 64, 36) \o TrakW(2, 480, 3, 0, 0))

MoovCorrupt == Box(MOOV, << 1, 1 >>)

\* a fragment whose first sample is a sync sample
MoofK(t) == Box(MOOF, << 1 >> \o TrafW(1, t, 255, 1, 1, 4, << >>))

\* a fragment whose samples all depend on others
MoofN(t) == Box(MOOF, << 1 >> \o TrafW(1, t, 3, 1, 2, 255, << >>))

\* container-metadata and fragment header that describe no track at all
Moov0 == Box(MOOV, << 0 >>)

Moof0 == Box(MOOF, << 0 >>)

Moof2 == Box(MOOF, << 2 >> \o TrafW(1, 0, 255, 1, 1, 4, << >>) \o TrafW(1, 0, 255, 1, 1, 4, << >>))

MoofNoTfdt == Box(MOOF, << 1 >> \o TrafW(0, 0, 255, 1, 1, 4, << >>))

Mdat(x) == Box(MDAT, << x >>)

Prft(x) == Box(PRFT, << x >>)

Free == Box(FREE, << >>)

FreeExt == BoxExt(FREE, << 7 >>)

MdatExt(x) == BoxExt(MDAT, << x >>)

\* headers with a malformed size: 0, 2..7, and an extended size below 16
BadZero == BE32(0) \o FREE

BadSmall == BE32(5) \o FREE

BadExt == BE32(1) \o FREE \o BE64(9)

InsertAt(g, i, b) == Take(g, i) \o << b >> \o Drop(g, i)

ReplaceAt(g, i, b) == Take(g, i - 1) \o << b >> \o Drop(g, i)

DeleteAt(g, i) == Take(g, i - 1) \o Drop(g, i)

\* boxes that may turn up anywhere in a stream
AnyBoxes ==
    { Ftyp, MoovV(1000), MoofK(80), MoofN(80), Moof2, MoofNoTfdt, MoofK(1040), Moof0,
      Mdat(9), Prft(5), Free, FreeExt, MdatExt(9), BadZero, BadSmall, BadExt }

\* container-metadata boxes that may stand where the stream's moov stands
MoovBoxes ==
    { MoovOf(1, 2), Moov2, MoovCorrupt, MoovOf(0, 1), MoovOf(2, 4), MoovOf(1, 5),
      MoovOf(1, 0), MoovV(0), MoovA(0, 0), MoovOf(3, 1), Moov0 }

\* the streams an encoder writes when nothing goes wrong
VideoStream == << Ftyp, MoovV(1000), MoofK(0), Mdat(1), MoofN(40), Mdat(2) >>

VideoKeyStream == << Ftyp, MoovV(1000), MoofK(0), Mdat(1), MoofK(40), Mdat(2) >>

VideoFineStream == << Ftyp, MoovV(1020), MoofK(0), Mdat(1), MoofK(1), Mdat(2) >>

VideoLateStream == << Ftyp, MoovV(1000), MoofN(40), Mdat(1), MoofK(80), Prft(5), Mdat(2), Mdat(3) >>

AudioStream == << Ftyp, MoovA(96, 64), MoofK(0), Mdat(1), MoofK(21), Mdat(2) >>

\* a stream and the streams that differ from it by one inserted, replaced
\* or deleted box
Variants(g) ==
    { g }
    \cup { InsertAt(g, i, b) : i \in 0 .. Len(g), b \in AnyBoxes }
    \cup { ReplaceAt(g, i, b) : i \in 1 .. Len(g), b \in AnyBoxes }
    \cup { DeleteAt(g, i) : i \in 1 .. Len(g) }
    \cup { InsertAt(g, i, b) : i \in 0 .. 1, b \in MoovBoxes }
    \cup { ReplaceAt(g, 2, b) : b \in MoovBoxes }

One(rep_id, g) == [r \in RepIDs |-> IF r = rep_id THEN Concat(g) ELSE << >>]

Two(g0, g1) == [r \in RepIDs |-> IF r = 0 THEN Concat(g0) ELSE IF r = 1 THEN Concat(g1) ELSE << >>]

\* a scenario: the bytes each representation's segment files will hold,
\* and whether the transport may close while they are published
Scenarios ==
    { [stream |-> One(1, g), fallible |-> FALSE] : g \in Variants(VideoStream) }
    \cup { [stream |-> One(0, g), fallible |-> FALSE] : g \in Variants(AudioStream) }
    \cup { [stream |-> One(1, g), fallible |-> f] :
               g \in { VideoStream, VideoKeyStream, VideoFineStream, VideoLateStream },
               f \in BOOLEAN }
    \cup { [stream |-> One(0, AudioStream), fallible |-> TRUE],
           [stream |-> One(2, VideoStream), fallible |-> FALSE],
           [stream |-> One(0, VideoKeyStream), fallible |-> FALSE],
           [stream |-> One(1, << Ftyp, MoovV(1000), MoovV(1000), MoofK(0) >>), fallible |-> TRUE],
           [stream |-> Two(<< Ftyp, MoovA(0, 0), MoofK(0), Mdat(1) >>,
                           << Ftyp, MoovV(1000), MoofK(0), Mdat(1) >>), fallible |-> FALSE],
           [stream |-> Two(<< FtypOf(1), MoovA(0, 0) >>,
                           << FtypOf(2), MoovV(1000) >>), fallible |-> FALSE],
           [stream |-> Two(<< Ftyp, BadSmall >>,
                           << Ftyp, MoovV(1000), MoofK(0), Mdat(1) >>), fallible |-> FALSE],
           [stream |-> Two(<< Ftyp, MoovA(96, 64), MoofK(0) >>,
                           << Ftyp, Ftyp, MoovV(1000), MoofK(0) >>), fallible |-> FALSE] }

\* ---------------------------------------------------------------- state
VARIABLES
    buf, ftyp, moov, prft, tracks, catalog,   \* fields of Publisher
    broadcast, catalog_broadcast,             \* transport tracks and their groups
    closed,                                   \* transport handles that are closed
    fallible,                                 \* the transport may close
    overflow_checks,                          \* build with integer overflow checks
    stream, pos,                              \* bytes of each representation, bytes delivered
    cut,                                      \* atoms returned by next_atom
    last,                                     \* representation and result of the last publish
    watcher,                                  \* "running", or the error MoqWatcher::run returned
    size,                                     \* bytes the encoder has written to each segment file
    store,                                    \* MoqWatcher.store: the offset kept for each file
    forwarded,                                \* bytes MoqWatcher passed to publish, by representation
    rx,                                       \* events waiting in the notify channel
    emitted,                                  \* number of events sent into the channel
    signal,                                   \* a termination signal was delivered
    registered,                               \* close() has installed its signal handlers
    task,                                     \* where the watcher future of the select stands
    dash,                                     \* where Dash::run stands
    running_handle,                           \* Limiter.running_handle
    qdisc,                                    \* the limit installed on the interfaces
    traj,                                     \* the spawned set_trajectory tasks
    unset                                     \* where the unset_bandwidth call stands

vars == << buf, ftyp, moov, prft, tracks, catalog, broadcast, catalog_broadcast,
           closed, fallible, overflow_checks, stream, pos, cut, last, watcher,
           size, store, forwarded, rx, emitted, signal, registered, task, dash,
           running_handle, qdisc, traj, unset >>

\* the state of the dash pipeline around the publisher, and of the relay's
\* limiter
dashvars == << size, store, forwarded, rx, emitted, signal, registered, task, dash >>

relayvars == << running_handle, qdisc, traj, unset >>

IdleTask == [pc |-> "start", kind |-> "None", rep |-> 0, chunk |-> << >>, atom |-> << >>]

\* a publisher driven directly by its caller: no pipeline around it
InitDashIdle ==
    /\ size = [r \in RepIDs |-> 0]
    /\ store = [r \in RepIDs |-> None]
    /\ forwarded = [r \in RepIDs |-> << >>]
    /\ rx = << >>
    /\ emitted = 0
    /\ signal = FALSE
    /\ registered = FALSE
    /\ task = IdleTask
    /\ dash = "select"

\* a relay on which no request was made
InitRelayIdle ==
    /\ running_handle = None
    /\ qdisc = None
    /\ traj = << >>
    /\ unset = "idle"

\* the publisher state record the operators work on
Pub ==
    [buf |-> buf, ftyp |-> ftyp, moov |-> moov, prft |-> prft, tracks |-> tracks,
     catalog |-> catalog, broadcast |-> broadcast, catalog_broadcast |-> catalog_broadcast,
     closed |-> closed, overflow_checks |-> overflow_checks, cut |-> cut]

\* Publisher::new, with MoqWatcher::new around it
InitPublisher ==
    /\ buf = [r \in RepIDs |-> << >>]
    /\ ftyp = [r \in RepIDs |-> None]
    /\ moov = [r \in RepIDs |-> None]
    /\ prft = [r \in RepIDs |-> None]
    /\ tracks = [r \in RepIDs |-> None]
    /\ catalog = CatalogNew
    /\ broadcast = << >>
    /\ catalog_broadcast = << >>
    /\ closed = {}
    /\ cut = [r \in RepIDs |-> << >>]
    /\ pos = [r \in RepIDs |-> 0]
    /\ last = [rep |-> 0, ret |-> "New"]
    /\ watcher = "running"
    /\ InitDashIdle
    /\ InitRelayIdle

Init ==
    /\ InitPublisher
    /\ overflow_checks = FALSE
    /\ \E sc \in Scenarios : stream = sc.stream /\ fallible = sc.fallible

\* the effect of publisher.publish(rep_id, chunk) on the state
Published(q, rep_id, n) ==
    /\ buf' = q.st.buf
    /\ ftyp' = q.st.ftyp
    /\ moov' = q.st.moov
    /\ prft' = q.st.prft
    /\ tracks' = q.st.tracks
    /\ catalog' = q.st.catalog
    /\ broadcast' = q.st.broadcast
    /\ catalog_broadcast' = q.st.catalog_broadcast
    /\ cut' = q.st.cut
    /\ pos' = [pos EXCEPT ![rep_id] = @ + n]
    /\ last' = [rep |-> rep_id, ret |-> q.ret]
    /\ UNCHANGED << closed, fallible, overflow_checks, stream >>
    /\ UNCHANGED << dashvars, relayvars >>

Chunk(rep_id, n) == SubSeq(stream[rep_id], pos[rep_id] + 1, pos[rep_id] + n)

ChunkSizes(rep_id) ==
    { n \in 1 .. MaxChunk : pos[rep_id] + n <= Len(stream[rep_id]) }

\* a caller hands the next n bytes of a representation to Publisher::publish
Publish(rep_id, n) ==
    /\ last.ret # "Panic"
    /\ n \in ChunkSizes(rep_id)
    /\ Published(publish(Pub, rep_id, Chunk(rep_id, n)), rep_id, n)
    /\ UNCHANGED watcher

\* the subscribers of the catalog track go away
CloseCatalog ==
    /\ fallible /\ last.ret # "Panic" /\ "catalog" \notin closed
    /\ closed' = closed \cup { "catalog" }
    /\ UNCHANGED << buf, ftyp, moov, prft, tracks, catalog, broadcast, catalog_broadcast,
                    fallible, overflow_checks, stream, pos, cut, last, watcher >>
    /\ UNCHANGED << dashvars, relayvars >>

\* the broadcast is closed
CloseBroadcast ==
    /\ fallible /\ last.ret # "Panic" /\ "broadcast" \notin closed
    /\ closed' = closed \cup { "broadcast" }
    /\ UNCHANGED << buf, ftyp, moov, prft, tracks, catalog, broadcast, catalog_broadcast,
                    fallible, overflow_checks, stream, pos, cut, last, watcher >>
    /\ UNCHANGED << dashvars, relayvars >>

Next ==
    \/ \E rep_id \in RepIDs, n \in 1 .. MaxChunk : Publish(rep_id, n)
    \/ CloseCatalog
    \/ CloseBroadcast

Spec == Init /\ [][Next]_vars

TypeOK ==
    /\ \A r \in RepIDs : pos[r] <= Len(stream[r])
    /\ closed \subseteq { "catalog", "broadcast" }

\* --------------------------------------------------- the watcher loop
IsErr(ret) == ret \notin { "New", "Ok", "Panic" }

\* MoqWatcher::handle of a Modify(Data) event: send_chunk reads the bytes
\* the file gained and publishes them; an error leaves MoqWatcher::run,
\* which ends the select of Dash::run
Sent(q, rep_id, n) ==
    /\ Published(q, rep_id, n)
    /\ watcher' = IF IsErr(q.ret) THEN q.ret ELSE watcher

SendChunk(rep_id, n) ==
    /\ watcher = "running"
    /\ last.ret # "Panic"
    /\ n \in ChunkSizes(rep_id)
    /\ Sent(publish(Pub, rep_id, Chunk(rep_id, n)), rep_id, n)

NextDash ==
    \/ \E rep_id \in RepIDs, n \in 1 .. MaxChunk : SendChunk(rep_id, n)
    \/ CloseCatalog
    \/ CloseBroadcast

SpecDash == Init /\ [][NextDash]_vars

\* ------------------------------------- the watcher inside Dash::run
\* kinds of notify events MoqWatcher::handle acts on
EventKinds == { "Create", "Modify", "CloseWrite" }

\* events sent into the channel in one run
MaxEvents == 3

\* the segment file of a representation, as the encoder will have written it
WatchStreams == { One(1, << Ftyp, MoovV(1000), MoofK(0), Mdat(1) >>) }

\* MoqWatcher::get: the offset kept for the file, 0 when there is none
get(st, r) == IF st[r] = None THEN 0 ELSE st[r][1]

\* MoqWatcher::set
set(st, r, offset) == [st EXCEPT ![r] = Some(offset)]

\* MoqWatcher::insert: the path of a segment file ends with ".m4s.tmp"
insert(st, r) == set(st, r, 0)

\* MoqWatcher::delete: self.store.remove(&path)
delete(st, r) == [st EXCEPT ![r] = None]

\* a watcher future that could be suspended at any position
YieldsAnywhere(pc) == pc = pc

\* the positions at which the watcher future returns Pending to the
\* select: before its first poll, and at the awaits on the file in
\* read_chunk. rx's iterator blocks the thread instead, and nothing from
\* read_chunk's return to the end of handle awaits anything that can pend
Yields(pc) == pc \in { "start", "read" }

InitWatch ==
    /\ InitPublisher
    /\ fallible = FALSE
    /\ overflow_checks = FALSE
    /\ stream \in WatchStreams

PublisherBecomes(P) ==
    /\ buf' = P.buf /\ ftyp' = P.ftyp /\ moov' = P.moov /\ prft' = P.prft
    /\ tracks' = P.tracks /\ catalog' = P.catalog /\ broadcast' = P.broadcast
    /\ catalog_broadcast' = P.catalog_broadcast /\ cut' = P.cut

PublisherUntouched ==
    UNCHANGED << buf, ftyp, moov, prft, tracks, catalog, broadcast, catalog_broadcast, cut >>

SetupUntouched == UNCHANGED << closed, fallible, overflow_checks, stream, relayvars >>

\* the sizes of the encoder's writes; the last write ends with the file
WriteSizes == { 7, MaxChunk }

Min(a, b) == IF a < b THEN a ELSE b

\* the encoder appends n bytes to the segment file of r
EncoderWrites(r, n) ==
    /\ dash = "select"
    /\ size[r] < Len(stream[r])
    /\ size' = [size EXCEPT ![r] = Min(@ + n, Len(stream[r]))]
    /\ PublisherUntouched /\ SetupUntouched
    /\ UNCHANGED << pos, last, watcher, store, forwarded, rx, emitted, signal, registered,
                    task >>
    /\ UNCHANGED dash

\* notify sends an event for the segment file of r into the channel
Notify(kind, r) ==
    /\ dash = "select"
    /\ task.pc # "start"
    /\ Len(stream[r]) > 0
    /\ emitted < MaxEvents
    /\ rx' = Append(rx, [kind |-> kind, rep |-> r])
    /\ emitted' = emitted + 1
    /\ PublisherUntouched /\ SetupUntouched
    /\ UNCHANGED << pos, last, watcher, size, store, forwarded, signal, registered, task,
                    dash >>

\* the first poll of the watcher branch: MoqWatcher::run makes the channel
\* and the notify watcher and enters "for event in rx"
WatcherStarts ==
    /\ dash = "select"
    /\ task.pc = "start"
    /\ task' = [task EXCEPT !.pc = "recv"]
    /\ PublisherUntouched /\ SetupUntouched
    /\ UNCHANGED << pos, last, watcher, size, store, forwarded, rx, emitted, signal,
                    registered, dash >>

\* rx hands over the next event and MoqWatcher::handle starts on it:
\* Create inserts the path, Modify(Data) and Close(Write) enter read_chunk
Receive ==
    /\ dash = "select"
    /\ task.pc = "recv"
    /\ rx # << >>
    /\ rx' = Tail(rx)
    /\ IF Head(rx).kind = "Create"
       THEN /\ store' = insert(store, Head(rx).rep)
            /\ UNCHANGED task
       ELSE /\ task' = [task EXCEPT !.pc = "read", !.kind = Head(rx).kind, !.rep = Head(rx).rep]
            /\ UNCHANGED store
    /\ PublisherUntouched /\ SetupUntouched
    /\ UNCHANGED << pos, last, watcher, size, forwarded, emitted, signal, registered, dash >>

\* what send_chunk and handle do once the chunk is published or found
\* empty: Close(Write) deletes the path
AfterSend(st, kind, r) == IF kind = "CloseWrite" THEN delete(st, r) ELSE st

\* read_chunk completes: the bytes from the kept offset to the end of the
\* file are read and the file's length is kept; an empty chunk ends
\* send_chunk. Every branch of the select has been polled before the
\* watcher future is polled again, so close() has run by now
ReadChunk ==
    /\ dash = "select"
    /\ task.pc = "read"
    /\ registered
    /\ LET r == task.rep
           chunk == SubSeq(stream[r], get(store, r) + 1, size[r])
       IN IF chunk = << >>
          THEN /\ store' = AfterSend(set(store, r, size[r]), task.kind, r)
               /\ task' = [task EXCEPT !.pc = "recv"]
          ELSE /\ store' = set(store, r, size[r])
               /\ task' = [task EXCEPT !.pc = "publish", !.chunk = chunk]
    /\ PublisherUntouched /\ SetupUntouched
    /\ UNCHANGED << pos, last, watcher, size, forwarded, rx, emitted, signal, registered,
                    dash >>

\* send_chunk calls Publisher::publish, which extends the buffer
PublishChunk ==
    /\ dash = "select"
    /\ task.pc = "publish"
    /\ forwarded' = [forwarded EXCEPT ![task.rep] = @ \o task.chunk]
    /\ buf' = [buf EXCEPT ![task.rep] = @ \o task.chunk]
    /\ pos' = [pos EXCEPT ![task.rep] = @ + Len(task.chunk)]
    /\ task' = [task EXCEPT !.pc = "cut", !.chunk = << >>]
    /\ SetupUntouched
    /\ UNCHANGED << ftyp, moov, prft, tracks, catalog, broadcast, catalog_broadcast, cut,
                    last, watcher, size, store, rx, emitted, signal, registered, dash >>

\* parse_atom asks next_atom for a box: a box is cut from the buffer, or
\* parse ends and with it publish, send_chunk and handle
ParseCut ==
    /\ dash = "select"
    /\ task.pc = "cut"
    /\ LET r == task.rep
           n == next_atom(buf[r])
       IN CASE n.ret = "Some" ->
                 /\ buf' = [buf EXCEPT ![r] = n.rest]
                 /\ cut' = [cut EXCEPT ![r] = Append(@, n.atom)]
                 /\ task' = [task EXCEPT !.pc = "dispatch", !.atom = n.atom]
                 /\ UNCHANGED << last, watcher, store >>
            [] n.ret = "None" ->
                 /\ last' = [rep |-> r, ret |-> "Ok"]
                 /\ store' = AfterSend(store, task.kind, r)
                 /\ task' = [task EXCEPT !.pc = "recv"]
                 /\ UNCHANGED << buf, cut, watcher >>
            [] OTHER ->
                 /\ last' = [rep |-> r, ret |-> IF n.ret = "Err" THEN "Err:Other" ELSE "Panic"]
                 /\ watcher' = last'.ret
                 /\ task' = [task EXCEPT !.pc = "returned"]
                 /\ UNCHANGED << buf, cut, store >>
    /\ SetupUntouched
    /\ UNCHANGED << ftyp, moov, prft, tracks, catalog, broadcast, catalog_broadcast,
                    pos, size, forwarded, rx, emitted, signal, registered, dash >>

\* parse_atom handles the box it has cut; an error ends MoqWatcher::run
ParseDispatch ==
    /\ dash = "select"
    /\ task.pc = "dispatch"
    /\ LET q == dispatch(Pub, task.rep, task.atom) IN
       /\ PublisherBecomes(q.st)
       /\ IF q.ret = "Ok(true)"
          THEN /\ task' = [task EXCEPT !.pc = "cut", !.atom = << >>]
               /\ UNCHANGED << last, watcher >>
          ELSE /\ task' = [task EXCEPT !.pc = "returned", !.atom = << >>]
               /\ last' = [rep |-> task.rep, ret |-> q.ret]
               /\ watcher' = q.ret
    /\ SetupUntouched
    /\ UNCHANGED << pos, size, store, forwarded, rx, emitted, signal, registered, dash >>

\* the watcher branch of the select is ready: MoqWatcher::run has returned
WatcherReturns ==
    /\ dash = "select"
    /\ task.pc = "returned"
    /\ dash' = IF watcher = "Panic" THEN "panicked" ELSE "left"
    /\ PublisherUntouched /\ SetupUntouched
    /\ UNCHANGED << pos, last, watcher, size, store, forwarded, rx, emitted, signal,
                    registered, task >>

\* the select polls close() for the first time: Signals::new installs the
\* handlers
PollClose ==
    /\ dash = "select"
    /\ ~registered
    /\ Yields(task.pc)
    /\ registered' = TRUE
    /\ PublisherUntouched /\ SetupUntouched
    /\ UNCHANGED << pos, last, watcher, size, store, forwarded, rx, emitted, signal,
                    task, dash >>

\* SIGHUP, SIGTERM, SIGINT or SIGQUIT is delivered to the process; with no
\* handler installed its default action ends the process
Signal ==
    /\ dash = "select"
    /\ ~signal
    /\ signal' = TRUE
    /\ dash' = IF registered THEN dash ELSE "killed"
    /\ PublisherUntouched /\ SetupUntouched
    /\ UNCHANGED << pos, last, watcher, size, store, forwarded, rx, emitted, registered,
                    task >>

\* the select polls close() with a signal waiting: the branch is ready and
\* the other futures are dropped where they stand
CloseReturns ==
    /\ dash = "select"
    /\ signal /\ registered
    /\ Yields(task.pc)
    /\ dash' = "left"
    /\ PublisherUntouched /\ SetupUntouched
    /\ UNCHANGED << pos, last, watcher, size, store, forwarded, rx, emitted, signal,
                    registered, task >>

\* session.run(), announce or read_output returns when the select polls it
OtherBranchReturns ==
    /\ dash = "select"
    /\ registered
    /\ Yields(task.pc)
    /\ task.pc # "start"
    /\ dash' = "left"
    /\ PublisherUntouched /\ SetupUntouched
    /\ UNCHANGED << pos, last, watcher, size, store, forwarded, rx, emitted, signal,
                    registered, task >>

\* after the select: ffmpeg.kill() and helper::clear_output
CleanUp ==
    /\ dash = "left"
    /\ dash' = "cleared"
    /\ PublisherUntouched /\ SetupUntouched
    /\ UNCHANGED << pos, last, watcher, size, store, forwarded, rx, emitted, signal,
                    registered, task >>

\* the steps of the task that runs Dash::run
DashSteps ==
    \/ WatcherStarts
    \/ Receive
    \/ ReadChunk
    \/ PublishChunk
    \/ ParseCut
    \/ ParseDispatch
    \/ WatcherReturns
    \/ PollClose
    \/ CloseReturns
    \/ CleanUp

NextWatch ==
    \/ \E r \in RepIDs, n \in WriteSizes : EncoderWrites(r, n)
    \/ \E kind \in EventKinds, r \in RepIDs : Notify(kind, r)
    \/ Signal
    \/ OtherBranchReturns
    \/ DashSteps

SpecWatch == InitWatch /\ [][NextWatch]_vars

\* the task that runs Dash::run is scheduled whenever it can take a step;
\* the encoder, the signal and the session are not obliged to do anything
SpecShutdown == InitWatch /\ [][NextWatch]_vars /\ WF_vars(DashSteps)

\* --------------------------------------------- the relay's limiter
\* trajectory tasks spawned in one run
MaxTasks == 2

\* trajectories, as the durations of their steps: 0 is "until reset"
Trajectories == { << 1 >>, << 1, 1 >>, << 0 >>, << 1, 0 >> }

pubvars == << buf, ftyp, moov, prft, tracks, catalog, broadcast, catalog_broadcast,
              closed, fallible, overflow_checks, stream, pos, cut, last, watcher >>

InitRelay ==
    /\ InitPublisher
    /\ fallible = FALSE
    /\ overflow_checks = FALSE
    /\ stream = [r \in RepIDs |-> << >>]

\* JoinHandle::abort on the handle in h, if there is one: the task is
\* cancelled the next time it returns Pending
abort_handle(tasks, h) ==
    IF h = None THEN tasks ELSE [tasks EXCEPT ![h[1]].aborted = TRUE]

\* tokio::spawn(set_trajectory(..)) in post_trajectory: the task starts to
\* run at once, on any worker thread. registered is 0 until set_handle was
\* called with the task's handle, and then the rank of that call
Spawn(steps) ==
    /\ unset = "idle"
    /\ Len(traj) < MaxTasks
    /\ traj' = Append(traj, [pc |-> "delete", step |-> 1, steps |-> steps,
                             aborted |-> FALSE, registered |-> 0])
    /\ UNCHANGED << running_handle, qdisc, unset, pubvars, dashvars >>

\* post_trajectory takes the write lock and calls Limiter::set_handle: the
\* handle replaces the registered one, which is aborted
SetHandle(t) ==
    /\ t \in 1 .. Len(traj)
    /\ traj[t].registered = 0
    /\ running_handle' = Some(t)
    /\ traj' = [abort_handle(traj, running_handle) EXCEPT
                    ![t].registered = 1 + Cardinality({ c \in 1 .. Len(traj) : traj[c].registered > 0 })]
    /\ UNCHANGED << qdisc, unset, pubvars, dashvars >>

\* a step of the for loop of set_trajectory up to delete_all_qdiscs:
\* current_limit is replaced under the write lock and the qdiscs are deleted
StepDelete(t) ==
    /\ t \in 1 .. Len(traj)
    /\ traj[t].pc = "delete"
    /\ qdisc' = None
    /\ traj' = [traj EXCEPT ![t].pc = "add"]
    /\ UNCHANGED << running_handle, unset, pubvars, dashvars >>

\* tc qdisc add ... root: it fails while a root qdisc is installed, and
\* output() is Ok all the same; a step of duration 0 returns Ok(())
StepAdd(t) ==
    /\ t \in 1 .. Len(traj)
    /\ traj[t].pc = "add"
    /\ qdisc' = IF qdisc = None THEN Some([owner |-> t, step |-> traj[t].step]) ELSE qdisc
    /\ traj' = [traj EXCEPT ![t].pc = IF traj[t].steps[traj[t].step] = 0 THEN "done"
                                      ELSE "sleep"]
    /\ UNCHANGED << running_handle, unset, pubvars, dashvars >>

\* sleep(duration) is over: the next step, or the end of the loop
Wake(t) ==
    /\ t \in 1 .. Len(traj)
    /\ traj[t].pc = "sleep"
    /\ ~traj[t].aborted
    /\ traj' = IF traj[t].step < Len(traj[t].steps)
               THEN [traj EXCEPT ![t].pc = "delete", ![t].step = @ + 1]
               ELSE [traj EXCEPT ![t].pc = "finish"]
    /\ UNCHANGED << running_handle, qdisc, unset, pubvars, dashvars >>

\* after the loop: the write lock is taken and Limiter::abort takes the
\* registered handle, whichever task it belongs to, and aborts it
Finish(t) ==
    /\ t \in 1 .. Len(traj)
    /\ traj[t].pc = "finish"
    /\ running_handle' = None
    /\ traj' = [abort_handle(traj, running_handle) EXCEPT ![t].pc = "cleanup"]
    /\ UNCHANGED << qdisc, unset, pubvars, dashvars >>

\* the last delete_all_qdiscs of set_trajectory
Cleanup(t) ==
    /\ t \in 1 .. Len(traj)
    /\ traj[t].pc = "cleanup"
    /\ qdisc' = None
    /\ traj' = [traj EXCEPT ![t].pc = "done"]
    /\ UNCHANGED << running_handle, unset, pubvars, dashvars >>

\* an aborted task is dropped when it returns Pending: always in sleep, and
\* at the await of a lock only when the lock is held by someone else
Cancelled(t) ==
    /\ t \in 1 .. Len(traj)
    /\ traj[t].aborted
    /\ traj[t].pc \in { "delete", "add", "sleep", "finish", "cleanup" }
    /\ traj' = [traj EXCEPT ![t].pc = "cancelled"]
    /\ UNCHANGED << running_handle, qdisc, unset, pubvars, dashvars >>

\* unset_bandwidth: Limiter::abort under the write lock
UnsetAbort ==
    /\ unset = "idle"
    /\ unset' = "aborted"
    /\ running_handle' = None
    /\ traj' = abort_handle(traj, running_handle)
    /\ UNCHANGED << qdisc, pubvars, dashvars >>

\* unset_bandwidth: delete_all_qdiscs, and the call returns
UnsetDelete ==
    /\ unset = "aborted"
    /\ unset' = "returned"
    /\ qdisc' = None
    /\ UNCHANGED << running_handle, traj, pubvars, dashvars >>

NextRelay ==
    \/ \E steps \in Trajectories : Spawn(steps)
    \/ \E t \in 1 .. MaxTasks : SetHandle(t)
    \/ \E t \in 1 .. MaxTasks : StepDelete(t)
    \/ \E t \in 1 .. MaxTasks : StepAdd(t)
    \/ \E t \in 1 .. MaxTasks : Wake(t)
    \/ \E t \in 1 .. MaxTasks : Finish(t)
    \/ \E t \in 1 .. MaxTasks : Cleanup(t)
    \/ \E t \in 1 .. MaxTasks : Cancelled(t)
    \/ UnsetAbort
    \/ UnsetDelete

SpecRelay == InitRelay /\ [][NextRelay]_vars

\* ------------------------------------------- priorities of fragments
\* timescales and timestamps of the fragments fed to one video track
PrioTimescales == { 1, 480, 1000, 1020 }

PrioTimestamps == { 0, 1, 2, 40, 41, 1000, 1023, 1024, 1048, 1049, 1050, 2097, 2098 }

\* number of fragments fed
MaxFragments == 2

\* the timestamp of a fragment header box
MoofTimestamp(atom) == ReadMoof(atom).moof.trafs[1].tfdt[1].base_media_decode_time

InitPrio ==
    /\ InitPublisher
    /\ fallible = FALSE
    /\ \E timescale \in PrioTimescales :
           stream = One(1, << Ftyp, MoovV(timescale) >>)
    /\ overflow_checks \in BOOLEAN

\* the initialization segment is published as one chunk
FeedInit ==
    /\ pos[1] = 0
    /\ Published(publish(Pub, 1, stream[1]), 1, Len(stream[1]))
    /\ UNCHANGED watcher

\* the effect of publishing a fragment header the encoder has just written
Fed(q, atom) ==
    /\ buf' = q.st.buf /\ ftyp' = q.st.ftyp /\ moov' = q.st.moov /\ prft' = q.st.prft
    /\ tracks' = q.st.tracks /\ catalog' = q.st.catalog /\ broadcast' = q.st.broadcast
    /\ catalog_broadcast' = q.st.catalog_broadcast /\ cut' = q.st.cut
    /\ last' = [rep |-> 1, ret |-> q.ret]
    /\ stream' = [stream EXCEPT ![1] = @ \o atom]
    /\ pos' = [pos EXCEPT ![1] = @ + Len(atom)]
    /\ UNCHANGED << closed, fallible, overflow_checks, watcher >>
    /\ UNCHANGED << dashvars, relayvars >>

\* the encoder writes a keyframe fragment header with decode time t and
\* it is published as one chunk
FeedFragment(t) ==
    /\ pos[1] > 0
    /\ last.ret # "Panic"
    /\ Len(cut[1]) < 2 + MaxFragments
    /\ \A i \in 3 .. Len(cut[1]) : MoofTimestamp(cut[1][i]) < t
    /\ Fed(publish(Pub, 1, MoofK(t)), MoofK(t))

NextPrio ==
    \/ FeedInit
    \/ \E t \in PrioTimestamps : FeedFragment(t)

SpecPrio == InitPrio /\ [][NextPrio]_vars

\* ------------------------------------------- keyframes of fragments
\* largest number of samples and of per-sample flags in a track run
MaxSamples == 2

\* flags on the wire: absent, sync sample, sample that depends on others
OptFlagBytes == { 255, 4, 3 }

FlagBytes == { 4, 3 }

\* fragment headers with one traf at decode time 0, over every combination
\* of default flags, first-sample flags, sample count and per-sample flags
KeyMoofs ==
    { Box(MOOF, << 1 >> \o TrafW(1, 0, dflt, 1, count, first, flags)) :
          dflt \in OptFlagBytes, count \in 0 .. MaxSamples, first \in OptFlagBytes,
          flags \in UNION { [1 .. n -> FlagBytes] : n \in 0 .. MaxSamples } }
    \cup { Box(MOOF, << 1 >> \o TrafW(1, 0, dflt, 0, 0, 255, << >>)) : dflt \in OptFlagBytes }

\* a video representation whose first fragment, not a keyframe, has opened
\* a group
InitKey ==
    /\ InitPublisher
    /\ fallible = FALSE
    /\ overflow_checks = FALSE
    /\ stream = One(1, << Ftyp, MoovV(1000), MoofN(0) >>)

\* the encoder writes one more fragment header and it is published
FeedKey(atom) ==
    /\ pos[1] > 0
    /\ Len(cut[1]) = 3
    /\ Fed(publish(Pub, 1, atom), atom)

\* flags on the wire over the values of sample_depends_on, with and without
\* sample_is_non_sync_sample, and with a bit set above sample_depends_on
BitFlagBytes == { 255, 0, 2, 5, 6, 12, 13 }

\* fragment headers with one sample whose flags come from the default
\* flags or from first_sample_flags
BitMoofs ==
    { Box(MOOF, << 1 >> \o TrafW(1, 0, dflt, 1, 1, first, << >>)) :
          dflt \in BitFlagBytes, first \in BitFlagBytes }

NextKey ==
    \/ FeedInit
    \/ \E atom \in KeyMoofs \cup BitMoofs : FeedKey(atom)

SpecKey == InitKey /\ [][NextKey]_vars

\* ------------------------------------------------ sizes of boxes
\* 32-bit lengths and extended lengths a header may declare
SizeFields == { 0, 1, 2, 5, 7, 8, 9, 17 }

ExtSizes == { 0, 1, 15, 16, 17 }

\* a header with the 32-bit length, the type tag, and either nothing or an
\* extended length and one more byte after it
SizedHeaders ==
    { BE32(s) \o FREE : s \in SizeFields }
    \cup { BE32(s) \o FREE \o BE64(e) \o << 7 >> : s \in SizeFields, e \in ExtSizes }

\* a publisher whose representation 1 will receive one such header
InitAtom ==
    /\ InitPublisher
    /\ fallible = FALSE
    /\ overflow_checks = FALSE
    /\ \E h \in SizedHeaders : stream = One(1, << h >>)

\* the next n bytes of the header are published
FeedBytes(n) ==
    /\ last.ret # "Panic"
    /\ n \in ChunkSizes(1)
    /\ Published(publish(Pub, 1, Chunk(1, n)), 1, n)
    /\ UNCHANGED watcher

NextAtom == \E n \in 1 .. MaxChunk : FeedBytes(n)

SpecAtom == InitAtom /\ [][NextAtom]_vars

\* ------------------------------------------------ the catalog alone
\* longest list of tracks or catalogs
MaxEntries == 3

CatalogNames == { "a", "b", "c" }

\* the lists of up to MaxEntries names
NameLists == UNION { [1 .. n -> CatalogNames] : n \in 0 .. MaxEntries }

TrackList(names) == [i \in 1 .. Len(names) |-> CatalogTrackNew(names[i])]

EntryList(names) == [i \in 1 .. Len(names) |-> CatalogEntryNew(names[i])]

\* MoqCatalog::new() in the hands of a caller
InitCatalog ==
    /\ catalog = MoqCatalogDefault
    /\ last = [rep |-> 0, ret |-> "New"]
    /\ buf = [r \in RepIDs |-> << >>]
    /\ ftyp = [r \in RepIDs |-> None]
    /\ moov = [r \in RepIDs |-> None]
    /\ prft = [r \in RepIDs |-> None]
    /\ tracks = [r \in RepIDs |-> None]
    /\ broadcast = << >>
    /\ catalog_broadcast = << >>
    /\ closed = {}
    /\ cut = [r \in RepIDs |-> << >>]
    /\ pos = [r \in RepIDs |-> 0]
    /\ watcher = "running"
    /\ fallible = FALSE
    /\ overflow_checks = FALSE
    /\ stream = [r \in RepIDs |-> << >>]
    /\ InitDashIdle
    /\ InitRelayIdle

\* the effect of a call that returned res, err being its error
Called(res, err) ==
    /\ catalog' = res.catalog
    /\ last' = [rep |-> 0, ret |-> IF res.ok THEN "Ok" ELSE err]
    /\ UNCHANGED << buf, ftyp, moov, prft, tracks, broadcast, catalog_broadcast,
                    closed, fallible, overflow_checks, stream, pos, cut, watcher >>
    /\ UNCHANGED << dashvars, relayvars >>

EntryCount(list) == IF list = None THEN 0 ELSE Len(list[1])

SetTracks(names) ==
    /\ Len(names) <= MaxEntries
    /\ Called(set_tracks(catalog, TrackList(names)), "Err:CatalogsAlreadySet")

InsertTrack(name) ==
    /\ EntryCount(catalog.tracks) < MaxEntries
    /\ Called(insert_track(catalog, CatalogTrackNew(name)), "Err:CatalogsAlreadySet")

SetCatalog(names) ==
    /\ Len(names) <= MaxEntries
    /\ Called(set_catalog(catalog, EntryList(names)), "Err:TracksAlreadySet")

InsertCatalog(name) ==
    /\ EntryCount(catalog.catalogs) < MaxEntries
    /\ Called(insert_catalog(catalog, CatalogEntryNew(name)), "Err:TracksAlreadySet")

NextCatalog ==
    \/ \E names \in NameLists : SetTracks(names)
    \/ \E name \in CatalogNames : InsertTrack(name)
    \/ \E names \in NameLists : SetCatalog(names)
    \/ \E name \in CatalogNames : InsertCatalog(name)

SpecCatalog == InitCatalog /\ [][NextCatalog]_vars

\* ------------------------------------------------------------ properties
\* length a well-formed box at the front of s declares (0: none does)
DeclaredSize(s) ==
    IF Len(s) < 8 THEN 0
    ELSE IF GetU32(s) >= 8 THEN GetU32(s)
    ELSE IF GetU32(s) = 1 /\ Len(s) >= 16 /\ GetU64(Drop(s, 8)) >= 16 THEN GetU64(Drop(s, 8))
    ELSE 0

\* s is the concatenation of well-formed boxes
RECURSIVE WellFormedStream(_)
WellFormedStream(s) ==
    \/ Len(s) = 0
    \/ /\ DeclaredSize(s) > 0
       /\ DeclaredSize(s) <= Len(s)
       /\ WellFormedStream(Drop(s, DeclaredSize(s)))

\* the boxes a well-formed stream is the concatenation of
RECURSIVE SplitBoxes(_)
SplitBoxes(s) ==
    IF Len(s) = 0 THEN << >>
    ELSE << Take(s, DeclaredSize(s)) >> \o SplitBoxes(Drop(s, DeclaredSize(s)))

\* b is a strict prefix of some well-formed box: too short to hold the
\* size fields, or shorter than the length it declares
StrictBoxPrefix(b) ==
    \/ Len(b) < 8
    \/ GetU32(b) >= 8 /\ Len(b) < GetU32(b)
    \/ GetU32(b) = 1 /\ Len(b) < 16
    \/ GetU32(b) = 1 /\ Len(b) >= 16 /\ GetU64(Drop(b, 8)) >= 16 /\ Len(b) < GetU64(Drop(b, 8))

\* the atom is a fragment header Fragment::new accepts
IsFragmentHeader(atom) ==
    /\ Len(atom) >= 8 /\ BoxName(atom) = MOOF
    /\ ReadMoof(atom).ok
    /\ FragmentNew(ReadMoof(atom).moof).ret = "Ok"

IsKeyframeHeader(atom) ==
    IsFragmentHeader(atom) /\ FragmentNew(ReadMoof(atom).moof).fragment[1].keyframe

IsPayload(atom) == Len(atom) >= 8 /\ BoxName(atom) = MDAT

HasTrack(r, handler) == tracks[r] # None /\ tracks[r][1].handler = handler

\* the groups of the transport track a representation's Track writes to
TrackGroups(r) == broadcast[tracks[r][1].track].groups

\* the step is a publish call for r in which next_atom returned one atom
CutsOne(r) == last'.rep = r /\ Len(cut'[r]) = Len(cut[r]) + 1

CutAtom(r) == cut'[r][Len(cut'[r])]

\* milliseconds of a decode time, computed without any width
TrueMillis(t, timescale) == (1000 * t) \div timescale

\* C1: for a stream that is a concatenation of well-formed boxes, delivered
\* in chunks cut at any offsets, next_atom never fails on the delivered
\* bytes, and once every byte is delivered and the last call returned Ok the
\* atoms cut are exactly the boxes of the stream, in order, with an empty
\* buffer.
C1_FramingChunkingIndependent ==
    \A r \in RepIDs :
        WellFormedStream(stream[r]) =>
            /\ next_atom(buf[r]).ret \in { "None", "Some" }
            /\ (pos[r] = Len(stream[r]) /\ last = [rep |-> r, ret |-> "Ok"]) =>
                   (cut[r] = SplitBoxes(stream[r]) /\ buf[r] = << >>)

\* C2: whenever a buffer holds a strict prefix of a well-formed box,
\* next_atom returns "incomplete" and leaves the buffer as it is; it neither
\* errors nor aborts.
C2_IncompleteBufferSafe ==
    \A r \in RepIDs :
        StrictBoxPrefix(buf[r]) =>
            (next_atom(buf[r]).ret = "None" /\ next_atom(buf[r]).rest = buf[r])

\* C3: in every group of a video representation's track, a keyframe
\* fragment header is the first object: the group that was open when it
\* arrived was closed before the header was appended.
C3_KeyframeHeaderStartsGroup ==
    \A r \in RepIDs :
        HasTrack(r, "Video") =>
            \A g \in 1 .. Len(TrackGroups(r)) :
                \A i \in 2 .. Len(TrackGroups(r)[g].objects) :
                    ~IsKeyframeHeader(TrackGroups(r)[g].objects[i])

C3_Witness ==
    \E r \in RepIDs :
        /\ HasTrack(r, "Video")
        /\ Len(TrackGroups(r)) >= 2
        /\ Len(TrackGroups(r)[1].objects) >= 2
        /\ IsKeyframeHeader(TrackGroups(r)[2].objects[1])

\* the step publishes, on a working transport, a keyframe fragment header
\* with decode time after that of the keyframe header that opened the group
\* still open on video representation r, its millisecond timestamp fitting
\* the priority width
SecondKeyframe(r) ==
    /\ CutsOne(r)
    /\ "broadcast" \notin closed
    /\ HasTrack(r, "Video")
    /\ tracks[r][1].current # None
    /\ IsKeyframeHeader(TrackGroups(r)[tracks[r][1].current[1]].objects[1])
    /\ IsKeyframeHeader(CutAtom(r))
    /\ MoofTimestamp(TrackGroups(r)[tracks[r][1].current[1]].objects[1]) < MoofTimestamp(CutAtom(r))
    /\ tracks[r][1].timescale > 0
    /\ 1000 * MoofTimestamp(CutAtom(r)) < W64
    /\ TrueMillis(MoofTimestamp(CutAtom(r)), tracks[r][1].timescale) <= U32MAX

\* C4 (as claimed): two consecutive keyframe fragments with t1 < t2 on a
\* video representation produce two distinct groups, the second with a
\* strictly smaller priority.
C4_StrictlyDecreasingPriority ==
    [][\A r \in RepIDs :
          SecondKeyframe(r) =>
              /\ tracks'[r][1].track = tracks[r][1].track
              /\ Len(TrackGroups(r)') = Len(TrackGroups(r)) + 1
              /\ TrackGroups(r)'[Len(TrackGroups(r)')].priority
                     < TrackGroups(r)[tracks[r][1].current[1]].priority]_vars

\* C4 (amended): the second keyframe's header is accepted, it is the first
\* object of a new group, and that group's priority is u32::MAX minus its
\* millisecond timestamp: never larger than the first group's, and smaller
\* exactly when the two decode times fall into different milliseconds.
C4_DecreasingPriority ==
    [][\A r \in RepIDs :
          SecondKeyframe(r) =>
              LET old == TrackGroups(r)[tracks[r][1].current[1]]
                  new == TrackGroups(r)'[Len(TrackGroups(r)')]
                  t1 == MoofTimestamp(old.objects[1])
                  t2 == MoofTimestamp(CutAtom(r))
                  timescale == tracks[r][1].timescale
              IN /\ last'.ret = "Ok"
                 /\ tracks'[r][1].track = tracks[r][1].track
                 /\ Len(TrackGroups(r)') = Len(TrackGroups(r)) + 1
                 /\ tracks'[r][1].current = Some(Len(TrackGroups(r)'))
                 /\ new.objects = << CutAtom(r) >>
                 /\ new.priority = U32MAX - TrueMillis(t2, timescale)
                 /\ new.priority <= old.priority
                 /\ (new.priority < old.priority
                        <=> TrueMillis(t1, timescale) < TrueMillis(t2, timescale))]_vars

C4_Witness ==
    \E r \in RepIDs :
        /\ HasTrack(r, "Video")
        /\ Len(TrackGroups(r)) = 2
        /\ IsKeyframeHeader(TrackGroups(r)[1].objects[1])
        /\ IsKeyframeHeader(TrackGroups(r)[2].objects[1])
        /\ TrackGroups(r)[2].priority < TrackGroups(r)[1].priority

\* the groups opened on representation 1, one per keyframe fragment fed
PrioGroups == IF tracks[1] = None THEN << >> ELSE TrackGroups(1)

\* the decode times and priorities of the groups fragments i and j opened
PrioOf(i) == PrioGroups[i].priority

TimeOf(i) == MoofTimestamp(PrioGroups[i].objects[1])

\* C5 (as claimed): of two fragments of one representation with t1 < t2
\* (decode times whose product 1000 * t stays below 2^64), the priority
\* Track::header computes for the first is strictly larger.
C5_StrictPriorityMonotonicity ==
    \A i, j \in 1 .. Len(PrioGroups) :
        (TimeOf(i) < TimeOf(j) /\ 1000 * TimeOf(j) < W64) => PrioOf(i) > PrioOf(j)

\* C5 (amended): for t1 < t2 whose product 1000 * t stays below 2^64 and
\* whose priorities are computed, priority(t1) >= priority(t2), and the
\* difference is the difference of the millisecond values
\* floor(1000 * t / timescale): it is strict exactly when these differ.
C5_PriorityMonotonicity ==
    \A i, j \in 1 .. Len(PrioGroups) :
        (TimeOf(i) < TimeOf(j) /\ 1000 * TimeOf(j) < W64) =>
            /\ PrioOf(i) >= PrioOf(j)
            /\ PrioOf(i) - PrioOf(j)
                   = TrueMillis(TimeOf(j), tracks[1][1].timescale)
                       - TrueMillis(TimeOf(i), tracks[1][1].timescale)

C5_Witness ==
    /\ Len(PrioGroups) = 2
    /\ TimeOf(1) < TimeOf(2)
    /\ 1000 * TimeOf(2) < W64
    /\ PrioOf(1) > PrioOf(2)

\* C6: the Track of an audio representation never has its group closed:
\* it has opened at most one group, and once opened that group stays the
\* one every header and payload is appended to.
C6_AudioNeverClosesGroup ==
    \A r \in RepIDs :
        HasTrack(r, "Audio") =>
            /\ Len(TrackGroups(r)) <= 1
            /\ Len(TrackGroups(r)) = 1 => tracks[r][1].current = Some(1)

C6_Witness ==
    \E r \in RepIDs :
        /\ HasTrack(r, "Audio")
        /\ Len(TrackGroups(r)) = 1
        /\ Len(TrackGroups(r)[1].objects) >= 4
        /\ IsKeyframeHeader(TrackGroups(r)[1].objects[1])
        /\ IsKeyframeHeader(TrackGroups(r)[1].objects[3])

\* the atom is a container-metadata box describing one avc1 video stream
\* with timescale 1000
IsVideoMoov1000(atom) ==
    /\ BoxName(atom) = MOOV /\ ReadMoov(atom).ok
    /\ Len(ReadMoov(atom).moov.traks) = 1
    /\ ReadMoov(atom).moov.traks[1].handler_type = "vide"
    /\ ReadMoov(atom).moov.traks[1].timescale = 1000
    /\ ReadMoov(atom).moov.traks[1].stsd.avc1 # None

\* representation r alone is fed
\* [type box][container-metadata, timescale 1000][(header, payload) x n],
\* every box with a 32-bit length, and r has an entry in the settings
EndToEndInput(r) ==
    /\ \A o \in RepIDs \ { r } : stream[o] = << >>
    /\ get_rep(r) # None
    /\ WellFormedStream(stream[r])
    /\ LET boxes == SplitBoxes(stream[r]) IN
       /\ Len(boxes) >= 2 /\ Len(boxes) % 2 = 0
       /\ \A k \in 1 .. Len(boxes) : GetU32(boxes[k]) >= 8
       /\ BoxName(boxes[1]) = FTYP
       /\ IsVideoMoov1000(boxes[2])
       /\ \A k \in 3 .. Len(boxes) :
              IF k % 2 = 1 THEN IsFragmentHeader(boxes[k]) ELSE IsPayload(boxes[k])

\* the fragment headers among the first n boxes of r's stream that open a
\* group: the first one and every keyframe
GroupOpeners(r, n) ==
    { k \in 3 .. n : k % 2 = 1 /\ (k = 3 \/ IsKeyframeHeader(SplitBoxes(stream[r])[k])) }

RECURSIVE Flatten(_)
Flatten(groups) ==
    IF Len(groups) = 0 THEN << >> ELSE groups[1].objects \o Flatten(Tail(groups))

\* what the end-to-end mapping says after the first n boxes were cut
EndToEndOutput(r) ==
    LET n == Len(cut[r]) IN
    /\ Len(catalog_broadcast) = (IF n >= 2 THEN 1 ELSE 0)
    /\ \A c \in 1 .. Len(catalog_broadcast) : Len(catalog_broadcast[c].objects) = 1
    /\ n < 3 => \A t \in 1 .. Len(broadcast) : broadcast[t].groups = << >>
    /\ n >= 3 =>
           /\ tracks[r] # None
           /\ Flatten(TrackGroups(r)) = SubSeq(cut[r], 3, n)
           /\ Len(TrackGroups(r)) = Cardinality(GroupOpeners(r, n))
    /\ (stream[r] = Concat(VideoStream) /\ n = 6) =>
           (/\ Len(TrackGroups(r)) = 1
            /\ TrackGroups(r)[1].priority = U32MAX
            /\ Len(TrackGroups(r)[1].objects) = 4)

C8_ErrorScopedToLane ==
    \A r \in RepIDs :
        (IsErr(last.ret) /\ r # last.rep /\ pos[r] < Len(stream[r])) => watcher = "running"

\* C9: a type box for a representation that has one stored, and a
\* container-metadata box for a representation that has one stored, make
\* publish return the duplicate-init error and leave the stored type boxes,
\* the stored metadata, the Tracks, the transport tracks, the catalog and
\* the published catalog objects as they were.
C9_SingleInit ==
    [][\A r \in RepIDs :
          CutsOne(r) =>
              /\ (BoxName(CutAtom(r)) = FTYP /\ ftyp[r] # None) =>
                     (/\ last'.ret = "Err:mp4:multiple ftyp on track"
                      /\ UNCHANGED << ftyp, moov, tracks, broadcast, catalog, catalog_broadcast >>)
              /\ (BoxName(CutAtom(r)) = MOOV /\ moov[r] # None) =>
                     (/\ last'.ret = "Err:mp4:multiple moov on track"
                      /\ UNCHANGED << ftyp, moov, tracks, broadcast, catalog, catalog_broadcast >>)]_vars

C9_Witness ==
    /\ last.ret = "Err:mp4:multiple moov on track"
    /\ moov[last.rep] # None
    /\ tracks[last.rep] # None
    /\ Len(catalog_broadcast) = 1
    /\ BoxName(cut[last.rep][Len(cut[last.rep])]) = MOOV

\* C10: a fragment header or payload for a representation whose setup has
\* not completed (no container-metadata stored) makes publish return the
\* missing-track error and writes nothing to any transport track.
C10_MissingTrack ==
    [][\A r \in RepIDs :
          (/\ CutsOne(r)
           /\ moov[r] = None
           /\ IsFragmentHeader(CutAtom(r)) \/ IsPayload(CutAtom(r)))
          => (last'.ret = "Err:Missing" /\ broadcast' = broadcast)]_vars

\* the snapshot as it was when it held its first j descriptors
SnapshotOf(j) == [catalog EXCEPT !.tracks = Some(SubSeq(catalog.tracks[1], 1, j))]

\* the representations whose setup has completed
SetupDone == { r \in RepIDs : moov[r] # None }

\* one publication per completed setup, the j-th a single object in a group
\* of priority 0 that encodes the snapshot of the first j descriptors
PublicationsMatch ==
    /\ Len(catalog_broadcast) = Cardinality(SetupDone)
    /\ \A j \in 1 .. Len(catalog_broadcast) :
           /\ catalog_broadcast[j].priority = 0
           /\ catalog_broadcast[j].objects = << encode(SnapshotOf(j)) >>

\* the descriptors of the snapshot, in insertion order
Descriptors == IF catalog.tracks = None THEN << >> ELSE catalog.tracks[1]

\* C11: after k representations have completed setup there are exactly k
\* catalog publications, the j-th a single object in a newly appended group
\* of priority 0 encoding the snapshot with the descriptors of the first j
\* representations in setup order: a step that completes the setup of r
\* appends r's descriptor to the snapshot and publishes the whole snapshot
\* in a new group, and no other step publishes.
C11_WholeSnapshotPublication ==
    [][/\ PublicationsMatch'
       /\ \A r \in RepIDs :
              (moov[r] = None /\ moov'[r] # None) =>
                  /\ Len(Descriptors') = Len(Descriptors) + 1
                  /\ SubSeq(Descriptors', 1, Len(Descriptors)) = Descriptors
                  /\ Descriptors'[Len(Descriptors')].name = get_rep(r)[1].name
                  /\ catalog_broadcast' =
                         Append(catalog_broadcast,
                                [priority |-> 0, objects |-> << encode(catalog') >>])
       /\ (moov' = moov) => (catalog_broadcast' = catalog_broadcast)]_vars

C11_Witness ==
    /\ Cardinality(SetupDone) = 2
    /\ Len(catalog_broadcast) = 2
    /\ Len(catalog_broadcast[1].objects[1].tracks[1]) = 1
    /\ Len(catalog_broadcast[2].objects[1].tracks[1]) = 2
    /\ catalog_broadcast[2].objects[1].tracks[1][1].name
           # catalog_broadcast[2].objects[1].tracks[1][2].name

\* C12: in every catalog snapshot published, supportsDeltaUpdates is absent
\* or false.
C12_DeltaUpdatesNeverEnabled ==
    \A j \in 1 .. Len(catalog_broadcast) :
        \A k \in 1 .. Len(catalog_broadcast[j].objects) :
            catalog_broadcast[j].objects[k].supportsDeltaUpdates \in { None, Some(FALSE) }

\* the fragment-header and fragment-payload boxes among the atoms
IsMediaBox(atom) == BoxName(atom) \in { MOOF, MDAT }

MediaBoxes(atoms) == SelectSeq(atoms, IsMediaBox)

\* the object is the box as it stands in the input; a payload box may be
\* followed by the bytes of a producer-reference-time box of the same input
IsObjectOf(obj, box, atoms) ==
    IF BoxName(box) = MOOF THEN obj = box
    ELSE /\ Len(obj) >= Len(box)
         /\ Take(obj, Len(box)) = box
         /\ \/ Len(obj) = Len(box)
            \/ \E k \in 1 .. Len(atoms) :
                   BoxName(atoms[k]) = PRFT /\ Drop(obj, Len(box)) = atoms[k]

C14_PendingAuxiliaryConsumed ==
    [][\A r \in RepIDs :
          (CutsOne(r) /\ IsPayload(CutAtom(r)) /\ last'.ret = "Ok") =>
              /\ prft'[r] = None
              /\ LET objs == Flatten(TrackGroups(r))' IN
                 objs[Len(objs)] = IF prft[r] = None THEN CutAtom(r)
                                   ELSE CutAtom(r) \o prft[r][1]]_vars

\* C15: a fragment-payload box for a representation whose Track has no
\* open group is rejected by Track::data: publish returns the error and
\* nothing is written to any transport track.
C15_PayloadWithoutOpenGroup ==
    [][\A r \in RepIDs :
          (/\ CutsOne(r) /\ IsPayload(CutAtom(r))
           /\ tracks[r] # None /\ tracks[r][1].current = None)
          => (/\ last'.ret = "Err:moq"
              /\ broadcast' = broadcast
              /\ tracks'[r] = tracks[r])]_vars

C15_Witness ==
    \E r \in RepIDs :
        /\ last = [rep |-> r, ret |-> "Err:moq"]
        /\ tracks[r] # None /\ tracks[r][1].current = None
        /\ moov[r] # None
        /\ TrackGroups(r) = << >>
        /\ IsPayload(cut[r][Len(cut[r])])

\* the flags that decide the keyframe status of sample i (0-based) of a
\* track run: first_sample_flags for sample 0 when set, else the sample's
\* own flags when the run has them, else the header's default flags
DecidingFlags(traf, i) ==
    CASE i = 0 /\ traf.trun[1].first_sample_flags # None -> traf.trun[1].first_sample_flags[1]
      [] OTHER ->
           IF i < Len(traf.trun[1].sample_flags) THEN traf.trun[1].sample_flags[i + 1]
           ELSE IF traf.tfhd.default_sample_flags # None THEN traf.tfhd.default_sample_flags[1]
           ELSE 0

\* some sample of the fragment is a keyframe by its deciding flags
HasKeySample(moof) ==
    /\ moof.trafs[1].trun # None
    /\ \E i \in 0 .. moof.trafs[1].trun[1].sample_count - 1 :
           FlagsKeyframe(DecidingFlags(moof.trafs[1], i))

\* the fragment header fed after the first one
FedMoof == ReadMoof(cut[1][4]).moof

\* C16: the fragment is taken for a keyframe, and closes the open group of
\* the video track, exactly when a sample is a keyframe by its deciding
\* flags: first_sample_flags alone for sample 0 when set, else per-sample
\* flags if present, else default_sample_flags.
C16_KeyframePrecedence ==
    Len(cut[1]) = 4 =>
        /\ last.ret = "Ok"
        /\ sample_keyframe(FedMoof) = HasKeySample(FedMoof)
        /\ Len(TrackGroups(1)) = IF HasKeySample(FedMoof) THEN 2 ELSE 1

C16_Witness ==
    /\ Len(cut[1]) = 4
    /\ FedMoof.trafs[1].trun # None
    /\ FedMoof.trafs[1].trun[1].sample_count = 1
    /\ FedMoof.trafs[1].trun[1].first_sample_flags = OptFlags(4)
    /\ FedMoof.trafs[1].trun[1].sample_flags = << Flags32(3) >>
    /\ FedMoof.trafs[1].tfhd.default_sample_flags = OptFlags(3)
    /\ Len(TrackGroups(1)) = 2

\* C17: starting from MoqCatalog::new(), set_tracks, insert_track,
\* set_catalog and insert_catalog never leave both 'tracks' and 'catalogs'
\* present; a call changes 'tracks' only when 'catalogs' is absent and
\* 'catalogs' only when 'tracks' is absent, and a call that returns
\* CatalogsAlreadySet or TracksAlreadySet leaves the catalog as it was.
C17_TracksCatalogsExclusive ==
    [][/\ ~(catalog'.tracks # None /\ catalog'.catalogs # None)
       /\ catalog'.tracks # catalog.tracks => catalog.catalogs = None
       /\ catalog'.catalogs # catalog.catalogs => catalog.tracks = None
       /\ last'.ret = "Err:CatalogsAlreadySet" => (catalog' = catalog /\ catalog.catalogs # None)
       /\ last'.ret = "Err:TracksAlreadySet" => (catalog' = catalog /\ catalog.tracks # None)]_vars

C17_Witness ==
    /\ last.ret = "Err:TracksAlreadySet"
    /\ catalog.tracks # None
    /\ Len(catalog.tracks[1]) = 2
    /\ catalog.catalogs = None


IsDescriptor(t, mime) ==
    /\ t.selection_params # None
    /\ t.selection_params[1].mime_type = Some(mime)
    /\ t.init_data # None /\ Len(t.init_data[1]) > 0

C19_PriorityFromTrueProduct ==
    \A i \in 1 .. Len(PrioGroups) :
        PrioOf(i) = U32MAX - TrueMillis(TimeOf(i), tracks[1][1].timescale)


\* the catalog snapshot holds the descriptor of representation r
HasDescriptor(r) ==
    /\ catalog.tracks # None
    /\ \E i \in 1 .. Len(catalog.tracks[1]) : catalog.tracks[1][i].name = get_rep(r)[1].name

\* C20: in every reachable state a representation has a Track only if its
\* type box and its container-metadata are stored and its descriptor is in
\* the catalog snapshot.
C20_ReadyState ==
    \A r \in RepIDs :
        tracks[r] # None => (ftyp[r] # None /\ moov[r] # None /\ HasDescriptor(r))


\* the step writes no object: the groups of every transport track and the
\* groups of the catalog track are as they were, and a track the step
\* created has no group
WritesNothing ==
    /\ catalog_broadcast' = catalog_broadcast
    /\ Len(broadcast') >= Len(broadcast)
    /\ \A t \in 1 .. Len(broadcast') :
           broadcast'[t].groups = IF t <= Len(broadcast) THEN broadcast[t].groups ELSE << >>

\* the step is a publish call for representation r
PublishFor(r) == last'.rep = r /\ pos'[r] > pos[r]

\* C21: once publish has returned an error for a representation, a later
\* publish call for that representation writes no object to its transport
\* track or to the catalog track (here: the call that follows the failed
\* one).
C21_LaneTornDown ==
    [][\A r \in RepIDs :
          (last.rep = r /\ IsErr(last.ret) /\ PublishFor(r)) => WritesNothing]_vars


\* the positions in the catalog snapshot of the descriptors of r
DescriptorsOf(r) ==
    IF catalog.tracks = None \/ get_rep(r) = None THEN {}
    ELSE { i \in 1 .. Len(catalog.tracks[1]) : catalog.tracks[1][i].name = get_rep(r)[1].name }

\* C22: the catalog snapshot holds at most one descriptor for each
\* representation, also after a setup that failed part-way and a second
\* container-metadata box for the same representation.
C22_OneDescriptorPerRepresentation ==
    \A r \in RepIDs : Cardinality(DescriptorsOf(r)) <= 1


\* the buffer starts with a header whose size is malformed: the 8-byte
\* header is there and its length is 0 or in 2..7, or its length is 1, the
\* 8-byte extended length is there too and is below 16
MalformedSize(b) ==
    /\ Len(b) >= 8
    /\ \/ GetU32(b) = 0
       \/ GetU32(b) \in 2 .. 7
       \/ GetU32(b) = 1 /\ Len(b) >= 16 /\ GetU64(Drop(b, 8)) < 16

\* the buffer of representation 1 as the publish call of this step sees it
BufferSeen == buf[1] \o SubSeq(stream[1], pos[1] + 1, pos'[1])

\* C23: when the buffer starts with a header whose size field is fully
\* there and malformed (length 0, length in 2..7, or length 1 with an
\* extended length below 16), next_atom returns an error, not "incomplete"
\* and not a box, and consumes no byte of the buffer.
C23_MalformedSizeIsError ==
    [][(pos'[1] > pos[1] /\ MalformedSize(BufferSeen)) =>
           (last'.ret = "Err:Other" /\ buf'[1] = BufferSeen /\ cut' = cut)]_vars

C23_Witness ==
    /\ last.ret = "Err:Other"
    /\ Len(buf[1]) = 17 /\ GetU32(buf[1]) = 1 /\ GetU64(Drop(buf[1], 8)) = 15
    /\ cut[1] = << >>


\* the test of the claim on the 32 bits of a sample's flags:
\* ((f >> 24) & 0x3) == 0x2 and ((f >> 16) & 0x1) != 0x1
DependsOnNoneAndSync(f) == (f \div 16777216) % 4 = 2 /\ (f \div 65536) % 2 # 1

\* the fragment has a track run and a sample index below sample_count
\* whose effective flags pass the test
ClaimedKeyframe(moof) ==
    /\ moof.trafs[1].trun # None
    /\ \E i \in 0 .. moof.trafs[1].trun[1].sample_count - 1 :
           DependsOnNoneAndSync(DecidingFlags(moof.trafs[1], i))

\* C24: sample_keyframe is true exactly when some sample index below
\* sample_count has effective flags with sample_depends_on = 2 and
\* sample_is_non_sync_sample = 0; a fragment with no track run or with
\* sample_count 0 is not a keyframe and stays in the open group.
C24_FragmentKeyframeRule ==
    Len(cut[1]) = 4 =>
        /\ sample_keyframe(FedMoof) <=> ClaimedKeyframe(FedMoof)
        /\ ClaimedKeyframe(FedMoof) <=> (tracks[1][1].current = Some(2))
        /\ (FedMoof.trafs[1].trun = None \/ FedMoof.trafs[1].trun[1].sample_count = 0)
               => (~sample_keyframe(FedMoof) /\ Len(TrackGroups(1)[1].objects) = 2)

C24_Witness ==
    /\ Len(cut[1]) = 4
    /\ FedMoof.trafs[1].trun # None
    /\ FedMoof.trafs[1].trun[1].sample_count = 1
    /\ FedMoof.trafs[1].trun[1].first_sample_flags = OptFlags(12)
    /\ FedMoof.trafs[1].tfhd.default_sample_flags = OptFlags(5)
    /\ tracks[1][1].current = Some(2)


\* the last publish call was for r and the last atom it handled is a
\* fragment header; the bytes left in the buffer are not a split extended
\* header
FragmentHandled(r) ==
    /\ last.rep = r
    /\ Len(cut[r]) > 0
    /\ BoxName(cut[r][Len(cut[r])]) = MOOF
    /\ next_atom(buf[r]).ret # "Panic"

\* C25: publish returns a value, Ok or an error, and does not abort, when
\* it handles a fragment header: also one whose track fragment has no
\* decode-time box, and one for a representation whose timescale is 0.
C25_TypedOutcome ==
    \A r \in RepIDs : FragmentHandled(r) => last.ret # "Panic"


\* a container-metadata box with one trak whose sample entry is neither
\* avc1 nor mp4a
UnsupportedMoov(atom) ==
    /\ BoxName(atom) = MOOV
    /\ ReadMoov(atom).ok
    /\ Len(ReadMoov(atom).moov.traks) = 1
    /\ ReadMoov(atom).moov.traks[1].stsd.avc1 = None
    /\ ReadMoov(atom).moov.traks[1].stsd.mp4a = None

\* setup gets as far as the codec branches: no moov stored, settings and
\* handler known, the transport track can be created, the type box stored
ReachesCodec(r, atom) ==
    /\ moov[r] = None
    /\ get_rep(r) # None
    /\ TrackType(ReadMoov(atom).moov.traks[1].handler_type) # None
    /\ "broadcast" \notin closed
    /\ ftyp[r] # None

CodecErrors ==
    { "Err:pub:HEVC not yet supported", "Err:pub:VP9 not yet supported", "Err:pub:unknown codec" }

\* C26: a container-metadata box whose sample entry is HEVC, VP9 or none of
\* avc1/mp4a makes publish return an error, inserts no descriptor into the
\* catalog snapshot and publishes no catalog object; when setup reaches the
\* codec branches the error is the codec error.
C26_UnsupportedCodecFatal ==
    [][\A r \in RepIDs :
          (CutsOne(r) /\ UnsupportedMoov(CutAtom(r))) =>
              /\ IsErr(last'.ret)
              /\ catalog' = catalog
              /\ catalog_broadcast' = catalog_broadcast
              /\ ReachesCodec(r, CutAtom(r)) => last'.ret \in CodecErrors]_vars

C26_Witness ==
    /\ last = [rep |-> 1, ret |-> "Err:pub:HEVC not yet supported"]
    /\ UnsupportedMoov(cut[1][Len(cut[1])])
    /\ ftyp[1] # None
    /\ catalog.tracks = None
    /\ catalog_broadcast = << >>


\* a container-metadata box that decodes and describes a number of traks
\* other than one
MultiTrackMoov(atom) ==
    BoxName(atom) = MOOV /\ ReadMoov(atom).ok /\ Len(ReadMoov(atom).moov.traks) # 1

\* a fragment header that decodes and has a number of trafs other than one
MultiTrackMoof(atom) ==
    BoxName(atom) = MOOF /\ ReadMoof(atom).ok /\ Len(ReadMoof(atom).moof.trafs) # 1

\* C27: a container-metadata box with a number of traks other than one and
\* a fragment header with a number of trafs other than one make publish
\* return an error; no transport track is created, no group is opened or
\* closed, nothing is written and the catalog is unchanged.
C27_MultiTrackRejected ==
    [][\A r \in RepIDs :
          (CutsOne(r) /\ (MultiTrackMoov(CutAtom(r)) \/ MultiTrackMoof(CutAtom(r)))) =>
              /\ IsErr(last'.ret)
              /\ MultiTrackMoof(CutAtom(r)) => last'.ret = "Err:mp4:multiple tracks per moof atom"
              /\ (MultiTrackMoov(CutAtom(r)) /\ moov[r] = None)
                     => last'.ret = "Err:mp4:multiple tracks in moov"
              /\ broadcast' = broadcast
              /\ catalog_broadcast' = catalog_broadcast
              /\ tracks' = tracks
              /\ catalog' = catalog
              /\ moov' = moov]_vars

C27_Witness ==
    /\ last = [rep |-> 1, ret |-> "Err:mp4:multiple tracks per moof atom"]
    /\ Len(ReadMoof(cut[1][Len(cut[1])]).moof.trafs) = 2
    /\ tracks[1] # None
    /\ tracks[1][1].current = Some(1)
    /\ Len(TrackGroups(1)[1].objects) = 2


\* a box whose type is none of ftyp, moov, moof, mdat, prft
OtherBox(atom) == BoxName(atom) \notin { FTYP, MOOV, MOOF, MDAT, PRFT }

\* the buffer of r as the publish call of this step sees it
Seen(r) == buf[r] \o SubSeq(stream[r], pos[r] + 1, pos'[r])

\* what publish returns when parse_atom finds these bytes left
LeftOutcome(b) ==
    CASE next_atom(b).ret = "Err" -> "Err:Other"
      [] next_atom(b).ret = "Panic" -> "Panic"
      [] OTHER -> "Ok"

\* C28: a complete box of any other type is consumed from the buffer and
\* is not an error; nothing is written to any track, and the stored type
\* box, container-metadata, pending auxiliary box, Track with its open
\* group, and the catalog stay as they were.
C28_UnknownBoxNoOp ==
    [][\A r \in RepIDs :
          (CutsOne(r) /\ OtherBox(CutAtom(r))) =>
              /\ CutAtom(r) \o buf'[r] = Seen(r)
              /\ last'.ret = LeftOutcome(buf'[r])
              /\ broadcast' = broadcast /\ catalog_broadcast' = catalog_broadcast
              /\ ftyp' = ftyp /\ moov' = moov /\ prft' = prft
              /\ tracks' = tracks /\ catalog' = catalog]_vars

C28_Witness ==
    /\ last = [rep |-> 1, ret |-> "Ok"]
    /\ Len(cut[1]) > 0
    /\ OtherBox(cut[1][Len(cut[1])])
    /\ GetU32(cut[1][Len(cut[1])]) = 1
    /\ buf[1] = << >>
    /\ tracks[1] # None /\ tracks[1][1].current # None


\* the transport track the Track of r writes to, with its groups
TransportOf(r) == IF tracks[r] = None THEN None ELSE Some(broadcast[tracks[r][1].track])

\* C29: a publish call for a representation leaves the buffer, the stored
\* type box, the stored container-metadata, the pending auxiliary box, the
\* Track, its open group and its transport track of every other
\* representation as they were.
C29_RepresentationIsolation ==
    [][\A r \in RepIDs : PublishFor(r) =>
          \A o \in RepIDs \ { r } :
              /\ buf'[o] = buf[o] /\ cut'[o] = cut[o]
              /\ ftyp'[o] = ftyp[o] /\ moov'[o] = moov[o] /\ prft'[o] = prft[o]
              /\ tracks'[o] = tracks[o]
              /\ TransportOf(o)' = TransportOf(o)]_vars

C29_Witness ==
    /\ tracks[0] # None /\ tracks[0][1].current # None
    /\ tracks[1] # None /\ tracks[1][1].current # None
    /\ ftyp[0] # None /\ ftyp[1] # None
    /\ last.rep = 1
    /\ catalog.tracks # None /\ Len(catalog.tracks[1]) = 2


\* the bytes a base64 text (sextets, 64 for '=') stands for
RECURSIVE Base64Decode(_)
Base64Decode(t) ==
    IF Len(t) < 4 THEN << >>
    ELSE LET b1 == t[1] * 4 + t[2] \div 16
             b2 == (t[2] % 16) * 16 + t[3] \div 4
             b3 == (t[3] % 4) * 64 + t[4]
         IN IF t[3] = 64 THEN << b1 >>
            ELSE IF t[4] = 64 THEN << b1, b2 >>
            ELSE << b1, b2, b3 >> \o Base64Decode(Drop(t, 4))

\* the container-metadata boxes next_atom has cut for r
MoovAtoms(r) == { cut[r][k] : k \in { k \in 1 .. Len(cut[r]) : BoxName(cut[r][k]) = MOOV } }

\* C30: the initialization data of a representation's descriptor is the
\* base64 text of the bytes of that representation's type box followed by
\* the bytes of its container-metadata box.
C30_InitPayload ==
    \A r \in RepIDs : \A i \in DescriptorsOf(r) :
        /\ ftyp[r] # None
        /\ catalog.tracks[1][i].init_data # None
        /\ \E m \in MoovAtoms(r) :
               /\ Base64Decode(catalog.tracks[1][i].init_data[1]) = ftyp[r][1] \o m
               /\ Len(catalog.tracks[1][i].init_data[1]) = 4 * ((Len(ftyp[r][1] \o m) + 2) \div 3)

C30_Witness ==
    /\ DescriptorsOf(0) # {} /\ DescriptorsOf(1) # {}
    /\ ftyp[0] # None /\ ftyp[1] # None /\ ftyp[0] # ftyp[1]
    /\ \A r \in { 0, 1 } : \A i \in DescriptorsOf(r) :
           Take(Base64Decode(catalog.tracks[1][i].init_data[1]), 9) = ftyp[r][1]


\* the larger of the two bitrates encoded in an mp4a entry's descriptor
EncodedBitrate(esds) ==
    IF esds.max_bitrate > esds.avg_bitrate THEN esds.max_bitrate ELSE esds.avg_bitrate

\* C31: the descriptor of an audio representation always has a bitrate:
\* the one encoded in the sample entry's descriptor when that is not zero,
\* otherwise the bitrate of the representation's settings.
C31_AudioBitrateFallback ==
    \A r \in RepIDs : \A i \in DescriptorsOf(r) :
        LET params == catalog.tracks[1][i].selection_params[1] IN
        (params.mime_type = Some("audio/mp4") /\ moov[r] # None) =>
            LET esds == moov[r][1].traks[1].stsd.mp4a[1].esds[1] IN
            params.bitrate = Some(IF EncodedBitrate(esds) > 0 THEN EncodedBitrate(esds)
                                  ELSE get_rep(r)[1].bitrate)

\* ------------------------------------------------- byte conservation
\* C33: for every representation, in every reachable state (also after an
\* error), the boxes cut so far followed by the bytes still buffered are
\* exactly the bytes passed to publish so far: nothing is dropped,
\* duplicated or reordered
C33_ByteConservation ==
    \A r \in RepIDs : Concat(cut[r]) \o buf[r] = Take(stream[r], pos[r])

\* a fatal error was returned with boxes already cut and bytes left over
C33_Witness ==
    /\ IsErr(last.ret)
    /\ last.rep \in RepIDs
    /\ Len(cut[last.rep]) >= 3
    /\ Len(buf[last.rep]) > 0
    /\ pos[last.rep] > Len(buf[last.rep])

\* ------------------------------------- permanence of a malformed size
\* C34: a malformed-size error is permanent for its representation: an
\* error of next_atom leaves the malformed header at the front of the
\* buffer; from then on the header stays there, and every later publish for
\* that representation returns the error again, cuts no box and writes
\* nothing to the transport, whatever bytes it appends
C34_MalformedSizePermanent ==
    [][\A r \in RepIDs :
           /\ (last'.ret = "Err:Other" /\ PublishFor(r)) => MalformedSize(buf'[r])
           /\ MalformedSize(buf[r]) =>
                  /\ MalformedSize(buf'[r])
                  /\ Take(buf'[r], Len(buf[r])) = buf[r]
                  /\ PublishFor(r) =>
                         /\ last'.ret = "Err:Other"
                         /\ buf'[r] = Seen(r)
                         /\ cut' = cut
                         /\ broadcast' = broadcast
                         /\ catalog_broadcast' = catalog_broadcast
                         /\ tracks' = tracks]_vars

\* the error came back from a publish that found the malformed header
\* already buffered by an earlier call, on a representation that has a
\* track to write to
C34_Witness ==
    /\ last.ret = "Err:Other"
    /\ last.rep \in RepIDs
    /\ tracks[last.rep] # None
    /\ MalformedSize(buf[last.rep])
    /\ Len(buf[last.rep]) >= 8 + MaxChunk

\* ------------------------------------------------------- group shape
\* the transport tracks that belong to video representations
VideoTrack(t) ==
    \E r \in RepIDs : HasTrack(r, "Video") /\ tracks[r][1].track = t

\* C35: every group opened on a media track has a fragment header as its
\* first object, and on a video track every group but the first starts with
\* the header of a keyframe fragment
C35_GroupShape ==
    \A t \in 1 .. Len(broadcast) : \A g \in 1 .. Len(broadcast[t].groups) :
        LET objects == broadcast[t].groups[g].objects IN
        /\ Len(objects) >= 1
        /\ IsFragmentHeader(objects[1])
        /\ (VideoTrack(t) /\ g >= 2) => IsKeyframeHeader(objects[1])

\* ------------------------------------------- watcher byte delivery
\* C36: whatever Create, Modify(Data) and Close(Write) events arrive for a
\* segment file that only grows, the chunks MoqWatcher has passed to
\* publish for it form, in order, a prefix of the file's content, and
\* between two events an offset kept for the file is the number of its
\* bytes already forwarded
C36_WatcherByteDelivery ==
    \A r \in RepIDs :
        /\ Len(forwarded[r]) <= Len(stream[r])
        /\ forwarded[r] = Take(stream[r], Len(forwarded[r]))
        /\ (task.pc = "recv" /\ store[r] # None) => store[r][1] = Len(forwarded[r])

\* ------------------------------------------------ shutdown liveness
\* C37: once a termination signal has been delivered, Dash::run eventually
\* leaves its select, kills the encoder and clears the output directory,
\* whether or not another filesystem event arrives
C37_ShutdownLiveness == signal ~> (dash = "cleared")

\* ----------------------------------------------------- cancellation
\* the watcher stands between the read of a chunk and the end of
\* Publisher::publish for it: bytes are read but not yet buffered, or the
\* parse loop is running, or a box is cut and not yet handled
InsidePublish == task.pc \in { "publish", "cut", "dispatch" }

\* C32: processing a box is atomic with respect to shutdown: whenever
\* Dash::run stops being in its select other than by a panic, the watcher
\* is not inside a publish call (no chunk read and not yet parsed, no box
\* cut and not yet dispatched), and the step that ends the select writes
\* nothing and leaves every Track, with its open group, as it was
C32_CancellationBetweenBoxes ==
    [][(dash = "select" /\ dash' \notin { "select", "panicked" }) =>
           /\ ~InsidePublish
           /\ task' = task
           /\ tracks' = tracks /\ broadcast' = broadcast
           /\ catalog_broadcast' = catalog_broadcast
           /\ buf' = buf /\ cut' = cut /\ forwarded' = forwarded]_vars

\* the select was left on a signal, while the watcher waited in read_chunk
\* with a group open on the video track and a box still incomplete in the
\* buffer
C32_Witness ==
    /\ dash = "left"
    /\ signal
    /\ task.pc = "read"
    /\ tracks[1] # None
    /\ tracks[1][1].current # None
    /\ Len(buf[1]) > 0

\* --------------------------------------------- trajectory replacement
\* the step is taken by trajectory task a
StepOf(a) == a <= Len(traj) /\ traj'[a].pc # traj[a].pc /\ traj'[a].pc # "cancelled"

\* C38: when post_trajectory registers a task b while an earlier task a is
\* registered, a is aborted; and once b is registered, no step of an earlier
\* task a aborts b or removes a limit b has installed
C38_TrajectoryReplacement ==
    [][\A a \in 1 .. Len(traj) : \A b \in 1 .. Len(traj) :
           a # b =>
               /\ (running_handle = Some(a) /\ running_handle' = Some(b)) => traj'[a].aborted
               /\ (0 < traj[a].registered /\ traj[a].registered < traj[b].registered
                   /\ StepOf(a)) =>
                      /\ traj'[b].aborted = traj[b].aborted
                      /\ (qdisc # None /\ qdisc[1].owner = b) => qdisc' = qdisc]_vars

\* ----------------------------------------------- bandwidth removal
\* C39: once unset_bandwidth has returned, no limit is installed and no
\* trajectory task that was started before the call installs one
C39_RemovalIsFinal == unset = "returned" => qdisc = None

====
